---- MODULE Spec2Model ----
(***************************************************************************)
(* Model of the ingestion-to-answer pipeline of BlockPatrol:                *)
(*   - BigQueryPDFChunkStorage.chunk_text      (app/utils/bigquery_storage) *)
(*   - LLMService.analyze_query_intent & co.   (app/utils/llm)              *)
(*   - search_document_chunks / chat_with_documents                         *)
(*                                             (app/api/endpoints/documents)*)
(* Text is a sequence of one-character strings, so that len(), slicing,    *)
(* strip() and string formatting are computed character by character.      *)
(* Sizes are scaled down: chunk_size and chunk_overlap are drawn from       *)
(* small ranges that keep the source's ordering                             *)
(* 0 < chunk_overlap < chunk_size.                                          *)
(***************************************************************************)
EXTENDS Integers, Sequences, FiniteSets, TLC

-----------------------------------------------------------------------------
(* Bounds of the model *)

MaxTextLen == 7
MaxChunkSize == 5
MaxOverlap == 2
MaxRows == 2
MaxNegLimit == 2
MaxQueryLen == 3
MaxPromptChunks == 3
MaxLimit == 3

-----------------------------------------------------------------------------
(* Strings *)

Alphabet == {"a", ".", " "}

Whitespace == {" "}

DocIds == {<<"D", "1">>, <<"E">>}

RECURSIVE Texts(_)
Texts(n) ==
  IF n = 0 THEN {<<>>}
  ELSE LET shorter == Texts(n - 1)
       IN  shorter \cup {Append(t, c) : t \in {u \in shorter : Len(u) = n - 1}, c \in Alphabet}

RECURSIVE LStrip(_)
LStrip(s) ==
  IF s = <<>> THEN <<>>
  ELSE IF Head(s) \in Whitespace THEN LStrip(Tail(s)) ELSE s

RECURSIVE RStrip(_)
RStrip(s) ==
  IF s = <<>> THEN <<>>
  ELSE IF s[Len(s)] \in Whitespace THEN RStrip(SubSeq(s, 1, Len(s) - 1)) ELSE s

\* str.strip()
Strip(s) == LStrip(RStrip(s))

Digit(d) == CASE d = 0 -> "0" [] d = 1 -> "1" [] d = 2 -> "2" [] d = 3 -> "3"
              [] d = 4 -> "4" [] d = 5 -> "5" [] d = 6 -> "6" [] d = 7 -> "7"
              [] d = 8 -> "8" [] d = 9 -> "9"

\* str(int) of a non-negative integer, as interpolated by an f-string
RECURSIVE IntToStr(_)
IntToStr(n) ==
  IF n < 10 THEN <<Digit(n)>> ELSE Append(IntToStr(n \div 10), Digit(n % 10))

\* f"{doc_id}_{chunk_id}"
FormatChunkId(d, k) == d \o <<"_">> \o IntToStr(k)

\* sent_tokenize: a sentence ends at a "." that is followed by whitespace (or
\* by the end of the text); sentences are returned without the whitespace
\* that separates them.  acc is the sentence being scanned.
RECURSIVE Tokenize(_, _)
Tokenize(s, acc) ==
  IF s = <<>> THEN (IF acc = <<>> THEN <<>> ELSE <<acc>>)
  ELSE IF acc = <<>> /\ Head(s) \in Whitespace THEN Tokenize(Tail(s), acc)
  ELSE IF Head(s) = "." /\ (Len(s) = 1 \/ s[2] \in Whitespace)
       THEN <<Append(acc, ".")>> \o Tokenize(Tail(s), <<>>)
  ELSE Tokenize(Tail(s), Append(acc, Head(s)))

sent_tokenize(t) == Tokenize(RStrip(t), <<>>)

-----------------------------------------------------------------------------
(* Chunker state *)

VARIABLES
  text,            \* argument text
  doc_id,          \* argument doc_id
  chunk_size,      \* self.chunk_size
  chunk_overlap,   \* self.chunk_overlap
  sentences,       \* sentences = sent_tokenize(text)
  sidx,            \* position of the for loop: next sentence to visit
  current_chunk,   \* current_chunk (the running buffer, untrimmed)
  chunk_id,        \* chunk_id counter
  chunks,          \* chunks, the list being returned
  cpc,             \* position in chunk_text: "call", "loop", "flush", "done"
  members,         \* history: per closed chunk, the sentence indices appended to its buffer
  cur_members,     \* history: sentence indices appended to the running buffer
  seeds,           \* history: per closed chunk, the overlap text its buffer was seeded with
  cur_seed         \* history: overlap text the running buffer was seeded with

cvars == <<text, doc_id, chunk_size, chunk_overlap, sentences, sidx, current_chunk,
           chunk_id, chunks, cpc, members, cur_members, seeds, cur_seed>>

-----------------------------------------------------------------------------
(* State of a query request: LLMService and the /search-chunks and /chat      *)
(* handlers.  A request runs alone (the handlers are synchronous and share  *)
(* no state), so each specification below runs one kind of call from its    *)
(* own initial states and leaves the other variables untouched.             *)

VARIABLES
  model,           \* LLMService.model: "None" or the configured model
  query,           \* the query string of the call
  limit,           \* search_request.limit
  intent,          \* value returned by analyze_query_intent
  llm_calls,       \* number of generate_content calls made on the model
  last_resp,       \* history: the model's response in a direct call of an LLMService method
  endpoint,        \* which call is running: "none", "classify", "search", "chat"
  pc,              \* position in the running call
  search_queries,  \* search_queries (bound or not, as tested by locals())
  enhanced_query,  \* enhanced_query (bound or not)
  qidx,            \* position of the loop over search_queries
  all_chunks,      \* all_chunks
  seen_chunk_ids,  \* seen_chunk_ids
  raw,             \* history: rows returned by the store, per search_chunks call
  limits_sent,     \* history: limit argument of each search_chunks call
  response         \* what the handler returns (or the HTTP error it raises)

qvars == <<model, query, limit, intent, llm_calls, last_resp, endpoint, pc, search_queries,
           enhanced_query, qidx, all_chunks, seen_chunk_ids, raw, limits_sent, response>>

-----------------------------------------------------------------------------
(* State of the calls into BigQueryPDFChunkStorage *)

VARIABLES
  store_errors,    \* history: per search_chunks call, where it raised ("none" if it did not)
  s_query,         \* search_chunks: argument query, character by character
  escaped_query,   \* search_chunks: escaped_query
  s_result,        \* search_chunks: the returned list
  s_pc,            \* position in search_chunks
  insert_rows,     \* history: the rows argument of each insert_rows_json call
  insert_outcome,  \* history: what insert_rows_json did
  index_result,    \* value returned by process_pdf_for_bigquery
  ipc,             \* position in process_pdf_for_bigquery
  searched         \* history: the query argument of each search_chunks call of a handler

evars == <<s_query, escaped_query, s_result, s_pc>>

\* state of a create_document call
VARIABLES
  bq_configured,   \* all([BQ_PROJECT_ID, BQ_DATASET, BQ_TABLE])
  db_rows,         \* the committed rows of the documents table
  d_path,          \* history: the way the call took
  d_result,        \* value returned by create_document
  d_pc             \* position in create_document

dvars == <<bq_configured, db_rows, d_path, d_result, d_pc>>

\* state of a generate_rag_prompt call
VARIABLES
  p_chunks,        \* argument chunks
  p_history,       \* argument history
  p_prompt,        \* the returned prompt, part by part
  p_pc             \* position in generate_rag_prompt

pvars == <<p_chunks, p_history, p_prompt, p_pc>>

\* the classifications made inside the stages of one /chat request
VARIABLES
  enhance_intent,  \* intent obtained inside enhance_search_query (llm.py 90)
  prompt_intent    \* intent obtained inside generate_rag_prompt (llm.py 129)

tvars == <<enhance_intent, prompt_intent>>

ivars == <<insert_rows, insert_outcome, index_result, ipc>>

vars == <<cvars, qvars, store_errors, evars, ivars, dvars, searched, pvars, tvars>>

Unbound == [bound |-> FALSE]

Bound(v) == [bound |-> TRUE, value |-> v]

\* no query request is running
QueryIdle ==
  /\ model = "None"
  /\ query = ""
  /\ limit = 0
  /\ intent = Unbound
  /\ llm_calls = 0
  /\ last_resp = Unbound
  /\ endpoint = "none"
  /\ pc = "idle"
  /\ search_queries = Unbound
  /\ enhanced_query = Unbound
  /\ qidx = 1
  /\ all_chunks = <<>>
  /\ seen_chunk_ids = {}
  /\ raw = <<>>
  /\ limits_sent = <<>>
  /\ response = Unbound
  /\ store_errors = <<>>

\* no direct search_chunks call is running
EscapeIdle ==
  /\ s_query = <<>>
  /\ escaped_query = <<>>
  /\ s_result = Unbound
  /\ s_pc = "idle"

\* no stage has classified the query
StagesIdle ==
  /\ enhance_intent = Unbound
  /\ prompt_intent = Unbound

\* no generate_rag_prompt call is running
PromptIdle ==
  /\ p_chunks = <<>>
  /\ p_history = Unbound
  /\ p_prompt = Unbound
  /\ p_pc = "idle"

\* no create_document call is running
DocumentIdle ==
  /\ bq_configured = FALSE
  /\ db_rows = <<>>
  /\ d_path = "none"
  /\ d_result = Unbound
  /\ d_pc = "idle"

\* no process_pdf_for_bigquery call is running
IndexIdle ==
  /\ insert_rows = <<>>
  /\ insert_outcome = Unbound
  /\ index_result = Unbound
  /\ ipc = "idle"

-----------------------------------------------------------------------------
(* JSON values and the generative model *)

JStr(t) == [kind |-> "string", s |-> t]

JNum(t) == [kind |-> "number", s |-> t]

JNull == [kind |-> "null"]

JList(xs) == [kind |-> "list", items |-> xs]

JObj(f) == [kind |-> "object", fields |-> f]

JSONDecodeError == [kind |-> "JSONDecodeError"]

NoFields == [k \in {} |-> JNull]

IntentTypes == {"comparison", "pattern", "timeline", "entity", "relationship", "general"}

Queries == {"compare D1 and D2", "what about (theft)?", "who is Mr. X", "timeline of D1", ""}

\* texts the model may answer with
IntentTexts ==
  {"{\"type\": \"comparison\", \"search_terms\": \"k\", \"cases_to_compare\": [\"D1\", \"D2\"]}",
   "{\"type\": \"pattern\", \"search_terms\": \"k\"}",
   "{\"type\": \"timeline\", \"search_terms\": \"k\"}",
   "{\"type\": \"entity\", \"search_terms\": \"k\", \"entities_to_track\": [\"X\"]}",
   "{\"type\": \"relationship\", \"search_terms\": \"k\"}",
   "{\"type\": \"general\", \"search_terms\": \"k\"}",
   "{\"type\": \"general\"}",
   "{\"type\": \"summary\", \"search_terms\": \"k\"}",
   " {\"type\": \"entity\", \"search_terms\": \"k\"}\n"}

ListTexts ==
  {"[]",
   "[\"s1\"]",
   "[\"s1\", \"s2\"]",
   "[\"s1\", \"s2\", \"s3\"]",
   "[\"s1\", \"s1\", \"s2\"]",
   "[\"s1\", 7, \"s2\"]"}

OtherTexts ==
  {"not json", "", "Here is the JSON: {\"type\": \"pattern\"}", "7", "null", "\"general\"",
   "{}", "{\"search_terms\": \"k\"}", "s1 s2"}

ModelTexts == IntentTexts \cup ListTexts \cup OtherTexts

\* self.model.generate_content(prompt): raises, or returns a response whose
\* .text is one of the texts above
ModelResponses == {[raises |-> TRUE]} \cup {[raises |-> FALSE, text |-> t] : t \in ModelTexts}

\* str.strip() on a model text
StripText(t) ==
  CASE t = " {\"type\": \"entity\", \"search_terms\": \"k\"}\n"
         -> "{\"type\": \"entity\", \"search_terms\": \"k\"}"
    [] OTHER -> t

IntentObj(ty) == JObj([type |-> JStr(ty), search_terms |-> JStr("k")])

\* json.loads on the (stripped) model texts
json_loads(t) ==
  CASE t = "{\"type\": \"comparison\", \"search_terms\": \"k\", \"cases_to_compare\": [\"D1\", \"D2\"]}"
         -> JObj([type |-> JStr("comparison"), search_terms |-> JStr("k"),
                  cases_to_compare |-> JList(<<JStr("D1"), JStr("D2")>>)])
    [] t = "{\"type\": \"pattern\", \"search_terms\": \"k\"}" -> IntentObj("pattern")
    [] t = "{\"type\": \"timeline\", \"search_terms\": \"k\"}" -> IntentObj("timeline")
    [] t = "{\"type\": \"entity\", \"search_terms\": \"k\", \"entities_to_track\": [\"X\"]}"
         -> JObj([type |-> JStr("entity"), search_terms |-> JStr("k"),
                  entities_to_track |-> JList(<<JStr("X")>>)])
    [] t = "{\"type\": \"entity\", \"search_terms\": \"k\"}" -> IntentObj("entity")
    [] t = "{\"type\": \"relationship\", \"search_terms\": \"k\"}" -> IntentObj("relationship")
    [] t = "{\"type\": \"general\", \"search_terms\": \"k\"}" -> IntentObj("general")
    [] t = "{\"type\": \"general\"}" -> JObj([type |-> JStr("general")])
    [] t = "{\"type\": \"summary\", \"search_terms\": \"k\"}" -> IntentObj("summary")
    [] t = "[]" -> JList(<<>>)
    [] t = "[\"s1\"]" -> JList(<<JStr("s1")>>)
    [] t = "[\"s1\", \"s2\"]" -> JList(<<JStr("s1"), JStr("s2")>>)
    [] t = "[\"s1\", \"s2\", \"s3\"]" -> JList(<<JStr("s1"), JStr("s2"), JStr("s3")>>)
    [] t = "[\"s1\", \"s1\", \"s2\"]" -> JList(<<JStr("s1"), JStr("s1"), JStr("s2")>>)
    [] t = "[\"s1\", 7, \"s2\"]" -> JList(<<JStr("s1"), JNum("7"), JStr("s2")>>)
    [] t = "7" -> JNum("7")
    [] t = "null" -> JNull
    [] t = "\"general\"" -> JStr("general")
    [] t = "{}" -> JObj(NoFields)
    [] t = "{\"search_terms\": \"k\"}" -> JObj([search_terms |-> JStr("k")])
    [] OTHER -> JSONDecodeError

\* v[key] evaluates without KeyError / TypeError
HasKey(v, key) == v.kind = "object" /\ key \in DOMAIN v.fields

\* self.model is not None
IsAvailable(m) == m # "None"

\* mutant: the fallback forgets the search terms
FallbackTypeOnly(q) == JObj([type |-> JStr("general")])

\* {"type": "general", "search_terms": query}
Fallback(q) == JObj([type |-> JStr("general"), search_terms |-> JStr(q)])

\* mutant: the parsed value is returned without looking at its type field
ParsedIntentUnchecked(parsed, q) == parsed

\* lines 72-74: the parsed value is returned after the log line has
\* evaluated intent_data['type']; a KeyError or TypeError raised there is
\* caught by the outer handler (lines 78-80)
ParsedIntent(parsed, q) == IF HasKey(parsed, "type") THEN parsed ELSE Fallback(q)

\* LLMService.analyze_query_intent, given the model's response to its prompt
analyze_query_intent(m, q, resp) ==
  IF ~IsAvailable(m) THEN Fallback(q)
  ELSE IF resp.raises THEN Fallback(q)
  ELSE LET parsed == json_loads(StripText(resp.text))
       IN  IF parsed = JSONDecodeError THEN Fallback(q) ELSE ParsedIntent(parsed, q)

\* intent["type"]
TypeOf(i) == i.fields["type"].s

\* mutant: relationship queries are not expanded into several queries
MultiQueryTypesNoRelationship == {"comparison", "pattern"}

MultiQueryTypes == {"comparison", "pattern", "relationship"}

\* mutant: an empty list from the model is returned as it is
generate_multi_query_any_list(m, q, resp) ==
  IF ~IsAvailable(m) THEN <<JStr(q)>>
  ELSE IF resp.raises THEN <<JStr(q)>>
  ELSE LET queries == json_loads(StripText(resp.text))
       IN  IF queries = JSONDecodeError THEN <<JStr(q)>>
           ELSE IF queries.kind = "list" THEN queries.items
           ELSE <<JStr(q)>>

\* LLMService.generate_multi_query, given the model's response to its prompt
generate_multi_query(m, q, resp) ==
  IF ~IsAvailable(m) THEN <<JStr(q)>>
  ELSE IF resp.raises THEN <<JStr(q)>>
  ELSE LET queries == json_loads(StripText(resp.text))
       IN  IF queries = JSONDecodeError THEN <<JStr(q)>>
           ELSE IF queries.kind = "list" /\ Len(queries.items) > 0 THEN queries.items
           ELSE <<JStr(q)>>

\* mutant: a failed call yields an empty search string
enhance_search_query_empty_on_failure(m, q, intent_resp, resp) ==
  IF ~IsAvailable(m) THEN q
  ELSE IF resp.raises THEN ""
  ELSE StripText(resp.text)

\* LLMService.enhance_search_query, given the model's responses to the intent
\* prompt (line 90) and to the keyword prompt (line 118); the intent only
\* selects the prompt text
enhance_search_query(m, q, intent_resp, resp) ==
  IF ~IsAvailable(m) THEN q
  ELSE IF resp.raises THEN q
  ELSE StripText(resp.text)

-----------------------------------------------------------------------------
(* The searchable store and BigQueryPDFChunkStorage.search_chunks *)

ChunkIds == {"D1_0", "D2_0"}

ChatPerQueryLimit == 3

Min(a, b) == IF a < b THEN a ELSE b

Max(a, b) == IF a < b THEN b ELSE a

RECURSIVE IdLists(_)
IdLists(n) ==
  IF n <= 0 THEN {<<>>}
  ELSE LET shorter == IdLists(n - 1)
       IN  shorter \cup {Append(r, c) : r \in {u \in shorter : Len(u) = n - 1}, c \in ChunkIds}

\* a row of the result set: its chunk_id, and the other selected columns
\* (doc_id, filename, original_pdf_ipfs_path, text) as the hit they belong to:
\* the search call that returned the row and its rank in that result
Rows(ids, call) == [r \in 1..Len(ids) |-> [chunk_id |-> ids[r], hit |-> <<call, r>>]]

\* what the query job does for "... LIMIT @limit": it fails (when the query
\* is submitted, or while its rows are read), or yields at most limit rows
\* (repeated chunk_ids are possible: the table has no key)
StoreResults(lim, call) ==
  {[raises |-> TRUE, at |-> a] : a \in {"execute", "rows"}}
    \cup {[raises |-> FALSE, rows |-> Rows(ids, call)] : ids \in IdLists(Min(lim, MaxRows))}

\* mutant: an error while reading the rows leaks the rows read so far
search_chunks_rows_leak(q, store) ==
  IF q.kind # "string" THEN <<>>
  ELSE IF store.raises THEN (IF store.at = "rows" THEN Rows(<<"D1_0">>, 0) ELSE <<>>)
  ELSE store.rows

\* search_chunks(query, limit): query.replace(...) raises on a value that is
\* not a str; every exception is caught and turned into []
search_chunks(q, store) ==
  IF q.kind # "string" THEN <<>>
  ELSE IF store.raises THEN <<>>
  ELSE store.rows

\* where search_chunks raised: building the escaped query of a value that is
\* not a str, executing the query, reading the rows; "none" if nowhere
SearchError(q, store) ==
  IF q.kind # "string" THEN "build"
  ELSE IF store.raises THEN store.at
  ELSE "none"

\* mutant: every query is searched with the overall limit
PerQueryLimitWhole(lim, n) == lim

\* search_request.limit // len(search_queries) + 1
PerQueryLimit(lim, n) == (lim \div n) + 1

\* mutant: every row is appended, seen or not
DedupKeepAll(acc, seen, rows) ==
  [all |-> acc \o rows, seen |-> seen \cup {rows[i].chunk_id : i \in 1..Len(rows)}]

\* the deduplication loop over one result (documents.py 262-265, 348-351)
RECURSIVE Dedup(_, _, _)
Dedup(acc, seen, rows) ==
  IF rows = <<>> THEN [all |-> acc, seen |-> seen]
  ELSE IF Head(rows).chunk_id \notin seen
       THEN Dedup(Append(acc, Head(rows)), seen \cup {Head(rows).chunk_id}, Tail(rows))
       ELSE Dedup(acc, seen, Tail(rows))

\* TextChunk(chunk_id=chunk["chunk_id"], ...)
TextChunk(row) == [chunk_id |-> row.chunk_id, hit |-> row.hit]

\* mutant: the last n elements are kept
SliceToLast(seq, n) == SubSeq(seq, Len(seq) - Min(Max(n, 0), Len(seq)) + 1, Len(seq))

\* mutant: the result is not cut
SliceToAll(seq, n) == seq

\* seq[:n]
SliceTo(seq, n) ==
  IF n >= 0 THEN SubSeq(seq, 1, Min(n, Len(seq)))
  ELSE SubSeq(seq, 1, Max(Len(seq) + n, 0))

\* mutant: the empty result is not noticed
NoChunksFoundNever(cs) == FALSE

\* "if not text_chunks:" (documents.py 365)
NoChunksFound(cs) == cs = <<>>

NoInfoAnswer == "I couldn't find any relevant information in the case files to answer your question. Please try rephrasing your question or provide more specific details."

\* a TextChunk (it has the attributes generate_rag_prompt reads)
IsTextChunk(c) == "chunk_id" \in DOMAIN c

\* generate_rag_prompt raises: reading chunk.doc_id of an element that is not
\* a TextChunk (llm.py 133-136)
PromptRaises(cs) == \E i \in 1..Len(cs) : ~IsTextChunk(cs[i])

\* mutant: the model's text is trimmed before it is returned
generate_response_stripped(m, cs, resp) ==
  IF ~IsAvailable(m)
  THEN "LLM service is not available. Please set the GEMINI_API_KEY environment variable."
  ELSE IF PromptRaises(cs) \/ resp.raises THEN "Error generating response: ..."
  ELSE StripText(resp.text)

\* LLMService.generate_response, given the model's response to the RAG
\* prompt; str(e) of the caught exception is written "..."
generate_response(m, cs, resp) ==
  IF ~IsAvailable(m)
  THEN "LLM service is not available. Please set the GEMINI_API_KEY environment variable."
  ELSE IF PromptRaises(cs) THEN "Error generating response: ..."
  ELSE IF resp.raises THEN "Error generating response: ..."
  ELSE resp.text

-----------------------------------------------------------------------------
(* Chunker: BigQueryPDFChunkStorage.chunk_text *)

\* the dict appended to chunks
MakeChunk(d, k, buf) == [chunk_id |-> FormatChunkId(d, k), doc_id |-> d, text |-> Strip(buf)]

\* mutant: the buffer is flushed even when it is empty
TruthyAlways(buf) == TRUE

\* truth value of a str in "if current_chunk:"
Truthy(buf) == buf # <<>>

\* mutant: the counter is not advanced
NextChunkIdSame(k) == k

\* chunk_id += 1
NextChunkId(k) == k + 1

\* mutant: strict comparison
FitsStrict(buf, sentence, size) == Len(buf) + Len(sentence) < size

\* mutant: the length of the buffer is not counted
FitsSentenceOnly(buf, sentence, size) == Len(sentence) <= size

\* len(current_chunk) + len(sentence) <= self.chunk_size
Fits(buf, sentence, size) == Len(buf) + Len(sentence) <= size

\* mutant: the overlap is taken from the head of the buffer
OverlapTextHead(buf, ov) ==
  IF Len(buf) > ov THEN SubSeq(buf, 1, ov) ELSE buf

\* current_chunk[-self.chunk_overlap:] if len(current_chunk) > self.chunk_overlap else current_chunk
\* (a slice [-0:] is the whole string)
OverlapText(buf, ov) ==
  IF Len(buf) > ov
  THEN (IF ov = 0 THEN buf ELSE SubSeq(buf, Len(buf) - ov + 1, Len(buf)))
  ELSE buf

\* current_chunk += sentence + " "
Extend(buf, sentence) == buf \o sentence \o <<" ">>

\* mutant: the new buffer holds the overlap only, the sentence is lost
ReseedOverlapOnly(buf, sentence, ov) == OverlapText(buf, ov)

\* current_chunk = overlap_text + sentence + " "
Reseed(buf, sentence, ov) == OverlapText(buf, ov) \o sentence \o <<" ">>

\* the arguments and locals of a chunk_text call about to start
ChunkStart ==
  /\ text \in Texts(MaxTextLen)
  /\ doc_id \in DocIds
  /\ chunk_size \in 1..MaxChunkSize
  /\ chunk_overlap \in 1..MaxOverlap
  /\ chunk_overlap < chunk_size
  /\ sentences = <<>>
  /\ sidx = 1
  /\ current_chunk = <<>>
  /\ chunk_id = 0
  /\ chunks = <<>>
  /\ cpc = "call"
  /\ members = <<>>
  /\ cur_members = <<>>
  /\ seeds = <<>>
  /\ cur_seed = <<>>

ChunkInit ==
  /\ ChunkStart
  /\ QueryIdle
  /\ EscapeIdle
  /\ StagesIdle
  /\ PromptIdle
  /\ searched = <<>>
  /\ DocumentIdle
  /\ IndexIdle

\* lines 44-47: chunks = [], sentences = sent_tokenize(text), current_chunk = "", chunk_id = 0
ChunkCall ==
  /\ cpc = "call"
  /\ sentences' = sent_tokenize(text)
  /\ cpc' = "loop"
  /\ UNCHANGED tvars
  /\ UNCHANGED pvars
  /\ UNCHANGED searched
  /\ UNCHANGED dvars
  /\ UNCHANGED <<text, doc_id, chunk_size, chunk_overlap, sidx, current_chunk, chunk_id,
                 chunks, members, cur_members, seeds, cur_seed>>
  /\ UNCHANGED qvars
  /\ UNCHANGED <<store_errors, evars, ivars>>

\* lines 50-51: the sentence fits, it is appended to the buffer
ChunkAppend ==
  /\ cpc = "loop"
  /\ sidx <= Len(sentences)
  /\ Fits(current_chunk, sentences[sidx], chunk_size)
  /\ current_chunk' = Extend(current_chunk, sentences[sidx])
  /\ cur_members' = Append(cur_members, sidx)
  /\ sidx' = sidx + 1
  /\ UNCHANGED tvars
  /\ UNCHANGED pvars
  /\ UNCHANGED searched
  /\ UNCHANGED dvars
  /\ UNCHANGED <<text, doc_id, chunk_size, chunk_overlap, sentences, chunk_id, chunks,
                 cpc, members, seeds, cur_seed>>
  /\ UNCHANGED qvars
  /\ UNCHANGED <<store_errors, evars, ivars>>

\* lines 53-62: the sentence does not fit and the buffer is non-empty:
\* close the chunk, seed the next buffer with the overlap
ChunkClose ==
  /\ cpc = "loop"
  /\ sidx <= Len(sentences)
  /\ ~Fits(current_chunk, sentences[sidx], chunk_size)
  /\ Truthy(current_chunk)
  /\ chunks' = Append(chunks, MakeChunk(doc_id, chunk_id, current_chunk))
  /\ current_chunk' = Reseed(current_chunk, sentences[sidx], chunk_overlap)
  /\ chunk_id' = NextChunkId(chunk_id)
  /\ members' = Append(members, cur_members)
  /\ seeds' = Append(seeds, cur_seed)
  /\ cur_members' = <<sidx>>
  /\ cur_seed' = OverlapText(current_chunk, chunk_overlap)
  /\ sidx' = sidx + 1
  /\ UNCHANGED tvars
  /\ UNCHANGED pvars
  /\ UNCHANGED searched
  /\ UNCHANGED dvars
  /\ UNCHANGED <<text, doc_id, chunk_size, chunk_overlap, sentences, cpc>>
  /\ UNCHANGED qvars
  /\ UNCHANGED <<store_errors, evars, ivars>>

\* lines 63-64: the sentence does not fit and the buffer is empty
ChunkOversizeFirst ==
  /\ cpc = "loop"
  /\ sidx <= Len(sentences)
  /\ ~Fits(current_chunk, sentences[sidx], chunk_size)
  /\ ~Truthy(current_chunk)
  /\ current_chunk' = Extend(<<>>, sentences[sidx])
  /\ cur_members' = <<sidx>>
  /\ sidx' = sidx + 1
  /\ UNCHANGED tvars
  /\ UNCHANGED pvars
  /\ UNCHANGED searched
  /\ UNCHANGED dvars
  /\ UNCHANGED <<text, doc_id, chunk_size, chunk_overlap, sentences, chunk_id, chunks,
                 cpc, members, seeds, cur_seed>>
  /\ UNCHANGED qvars
  /\ UNCHANGED <<store_errors, evars, ivars>>

\* lines 66-73: flush a non-empty buffer as the final chunk and return
ChunkFlush ==
  /\ cpc = "loop"
  /\ sidx > Len(sentences)
  /\ Truthy(current_chunk)
  /\ chunks' = Append(chunks, MakeChunk(doc_id, chunk_id, current_chunk))
  /\ members' = Append(members, cur_members)
  /\ seeds' = Append(seeds, cur_seed)
  /\ cpc' = "done"
  /\ UNCHANGED tvars
  /\ UNCHANGED pvars
  /\ UNCHANGED searched
  /\ UNCHANGED dvars
  /\ UNCHANGED <<text, doc_id, chunk_size, chunk_overlap, sentences, sidx, current_chunk,
                 chunk_id, cur_members, cur_seed>>
  /\ UNCHANGED qvars
  /\ UNCHANGED <<store_errors, evars, ivars>>

\* lines 66, 73: nothing buffered, return chunks as they are
ChunkReturnEmpty ==
  /\ cpc = "loop"
  /\ sidx > Len(sentences)
  /\ ~Truthy(current_chunk)
  /\ cpc' = "done"
  /\ UNCHANGED tvars
  /\ UNCHANGED pvars
  /\ UNCHANGED searched
  /\ UNCHANGED dvars
  /\ UNCHANGED <<text, doc_id, chunk_size, chunk_overlap, sentences, sidx, current_chunk,
                 chunk_id, chunks, members, cur_members, seeds, cur_seed>>
  /\ UNCHANGED qvars
  /\ UNCHANGED <<store_errors, evars, ivars>>

ChunkNext ==
  \/ ChunkCall
  \/ ChunkAppend
  \/ ChunkClose
  \/ ChunkOversizeFirst
  \/ ChunkFlush
  \/ ChunkReturnEmpty

SpecChunk == ChunkInit /\ [][ChunkNext]_vars

-----------------------------------------------------------------------------
(* chunk_text called with any chunk size and document id: neither __init__   *)
(* nor chunk_text checks them                                                *)

ChunkUncheckedInit ==
  /\ text \in Texts(MaxTextLen)
  /\ doc_id \in DocIds \cup {<<>>}
  /\ chunk_size \in (0 - 1)..MaxChunkSize
  /\ chunk_overlap \in 1..MaxOverlap
  /\ chunk_size > 0 => chunk_overlap < chunk_size
  /\ sentences = <<>>
  /\ sidx = 1
  /\ current_chunk = <<>>
  /\ chunk_id = 0
  /\ chunks = <<>>
  /\ cpc = "call"
  /\ members = <<>>
  /\ cur_members = <<>>
  /\ seeds = <<>>
  /\ cur_seed = <<>>
  /\ QueryIdle
  /\ EscapeIdle
  /\ StagesIdle
  /\ PromptIdle
  /\ searched = <<>>
  /\ DocumentIdle
  /\ IndexIdle

SpecChunkUnchecked == ChunkUncheckedInit /\ [][ChunkNext]_vars

-----------------------------------------------------------------------------
(* Indexing: process_pdf_for_bigquery = chunk_text, then                     *)
(* store_chunks_in_bigquery with its single insert_rows_json call            *)

\* the row built for a chunk (lines 85-93), without the per-document fields
Row(chunk) == [chunk_id |-> chunk.chunk_id, doc_id |-> chunk.doc_id, text |-> chunk.text]

RowsOf(cs) == [i \in 1..Len(cs) |-> Row(cs[i])]

\* what insert_rows_json can do with n rows: raise, report errors for some
\* rows, or report none
InsertOutcomes(n) ==
  {[kind |-> "raises"], [kind |-> "ok"]}
    \cup {[kind |-> "errors", rows |-> S] : S \in (SUBSET (1..n)) \ {{}}}

NoError == [kind |-> "None"]

\* the dict returned by store_chunks_in_bigquery (lines 95-113)
store_chunks_in_bigquery(rows, outcome) ==
  IF outcome.kind = "raises" THEN [success |-> FALSE, error |-> [kind |-> "exception"]]
  ELSE IF outcome.kind = "errors"
       THEN [success |-> FALSE, error |-> [kind |-> "insert_errors", rows |-> outcome.rows]]
       ELSE [success |-> TRUE, chunks_count |-> Len(rows)]

\* the dict returned by process_pdf_for_bigquery (lines 127-132)
process_result(d, cs, result) ==
  [success |-> result.success,
   doc_id |-> d,
   chunks_count |-> IF result.success THEN Len(cs) ELSE 0,
   error |-> IF "error" \in DOMAIN result THEN result.error ELSE NoError]

IndexInit ==
  /\ ChunkStart
  /\ QueryIdle
  /\ EscapeIdle
  /\ StagesIdle
  /\ PromptIdle
  /\ searched = <<>>
  /\ DocumentIdle
  /\ insert_rows = <<>>
  /\ insert_outcome = Unbound
  /\ index_result = Unbound
  /\ ipc = "call"

\* lines 125-132, once chunk_text has returned: the rows are built and
\* inserted in one call, and the result dict is returned
IndexStore ==
  /\ ipc = "call"
  /\ cpc = "done"
  /\ LET rows == RowsOf(chunks)
     IN  /\ insert_rows' = Append(insert_rows, rows)
         /\ \E outcome \in InsertOutcomes(Len(rows)) :
              /\ insert_outcome' = Bound(outcome)
              /\ index_result' =
                   Bound(process_result(doc_id, chunks, store_chunks_in_bigquery(rows, outcome)))
  /\ ipc' = "done"
  /\ UNCHANGED tvars
  /\ UNCHANGED pvars
  /\ UNCHANGED searched
  /\ UNCHANGED dvars
  /\ UNCHANGED cvars
  /\ UNCHANGED qvars
  /\ UNCHANGED <<store_errors, evars>>

IndexNext ==
  \/ ChunkNext
  \/ IndexStore

SpecIndex == IndexInit /\ [][IndexNext]_vars

-----------------------------------------------------------------------------
(* Ingestion: create_document stores the file, commits the document row and  *)
(* then, when BigQuery is configured, indexes the chunks of the raw text     *)

\* the row of the documents table
Document == [filename |-> "case.pdf"]

\* bigquery_result before any indexing (line 63)
NotIndexed == [success |-> TRUE, chunks_count |-> 0]

\* bigquery_result of the except clause of lines 84-88
StorageError == [success |-> FALSE, error |-> [kind |-> "storage_error"]]

\* the dict of the except clause of process_pdf_for_bigquery (lines 133-138)
ProcessError == [success |-> FALSE, error |-> [kind |-> "exception"]]

\* mutant: a failed indexing makes the ingestion fail
create_document_result_strict(document, bigquery_result) ==
  [success |-> bigquery_result.success, document |-> document,
   bigquery_details |-> bigquery_result]

\* the dict returned after the commit (lines 90-97)
create_document_result(document, bigquery_result) ==
  [success |-> TRUE, document |-> document, bigquery_details |-> bigquery_result]

IngestInit ==
  /\ text \in Texts(MaxTextLen)
  /\ doc_id \in DocIds
  /\ chunk_size \in 1..MaxChunkSize
  /\ chunk_overlap \in 1..MaxOverlap
  /\ chunk_overlap < chunk_size
  /\ sentences = <<>>
  /\ sidx = 1
  /\ current_chunk = <<>>
  /\ chunk_id = 0
  /\ chunks = <<>>
  /\ cpc = "idle"
  /\ members = <<>>
  /\ cur_members = <<>>
  /\ seeds = <<>>
  /\ cur_seed = <<>>
  /\ QueryIdle
  /\ EscapeIdle
  /\ StagesIdle
  /\ PromptIdle
  /\ searched = <<>>
  /\ IndexIdle
  /\ bq_configured \in BOOLEAN
  /\ db_rows = <<>>
  /\ d_path = "none"
  /\ d_result = Unbound
  /\ d_pc = "call"

\* lines 21-47: IPFS, the PDF extraction or the blockchain reports a failure
IngestRejected ==
  /\ d_pc = "call"
  /\ \E stage \in {"ipfs", "pdf", "blockchain"} :
       d_result' = Bound([success |-> FALSE, error |-> [kind |-> stage]])
  /\ d_path' = "rejected"
  /\ d_pc' = "done"
  /\ UNCHANGED tvars
  /\ UNCHANGED pvars
  /\ UNCHANGED searched
  /\ UNCHANGED <<bq_configured, db_rows>>
  /\ UNCHANGED <<cvars, qvars, store_errors, evars, ivars>>

\* lines 58-60: the commit raises, and so does create_document
IngestCommitRaises ==
  /\ d_pc = "call"
  /\ d_result' = Bound([raises |-> TRUE])
  /\ d_path' = "commit_raised"
  /\ d_pc' = "done"
  /\ UNCHANGED tvars
  /\ UNCHANGED pvars
  /\ UNCHANGED searched
  /\ UNCHANGED <<bq_configured, db_rows>>
  /\ UNCHANGED <<cvars, qvars, store_errors, evars, ivars>>

\* lines 50-60: the document row is committed
IngestCommit ==
  /\ d_pc = "call"
  /\ db_rows' = Append(db_rows, Document)
  /\ d_pc' = "committed"
  /\ UNCHANGED tvars
  /\ UNCHANGED pvars
  /\ UNCHANGED searched
  /\ UNCHANGED <<bq_configured, d_path, d_result>>
  /\ UNCHANGED <<cvars, qvars, store_errors, evars, ivars>>

\* line 64: BigQuery is not configured
IngestNotConfigured ==
  /\ d_pc = "committed"
  /\ ~bq_configured
  /\ d_result' = Bound(create_document_result(db_rows[Len(db_rows)], NotIndexed))
  /\ d_path' = "not_configured"
  /\ d_pc' = "done"
  /\ UNCHANGED tvars
  /\ UNCHANGED pvars
  /\ UNCHANGED searched
  /\ UNCHANGED <<bq_configured, db_rows>>
  /\ UNCHANGED <<cvars, qvars, store_errors, evars, ivars>>

\* lines 67-68: get_raw_text reports a failure, nothing is indexed
IngestNoRawText ==
  /\ d_pc = "committed"
  /\ bq_configured
  /\ d_result' = Bound(create_document_result(db_rows[Len(db_rows)], NotIndexed))
  /\ d_path' = "no_raw_text"
  /\ d_pc' = "done"
  /\ UNCHANGED tvars
  /\ UNCHANGED pvars
  /\ UNCHANGED searched
  /\ UNCHANGED <<bq_configured, db_rows>>
  /\ UNCHANGED <<cvars, qvars, store_errors, evars, ivars>>

\* lines 70-75 and 84-88: creating the BigQuery client raises
IngestSetupRaises ==
  /\ d_pc = "committed"
  /\ bq_configured
  /\ d_result' = Bound(create_document_result(db_rows[Len(db_rows)], StorageError))
  /\ d_path' = "setup_raised"
  /\ d_pc' = "done"
  /\ UNCHANGED tvars
  /\ UNCHANGED pvars
  /\ UNCHANGED searched
  /\ UNCHANGED <<bq_configured, db_rows>>
  /\ UNCHANGED <<cvars, qvars, store_errors, evars, ivars>>

\* lines 77-82: process_pdf_for_bigquery is called with the raw text
IngestStartIndex ==
  /\ d_pc = "committed"
  /\ bq_configured
  /\ cpc' = "call"
  /\ ipc' = "call"
  /\ d_pc' = "indexing"
  /\ UNCHANGED tvars
  /\ UNCHANGED pvars
  /\ UNCHANGED searched
  /\ UNCHANGED <<bq_configured, db_rows, d_path, d_result>>
  /\ UNCHANGED <<text, doc_id, chunk_size, chunk_overlap, sentences, sidx, current_chunk,
                 chunk_id, chunks, members, cur_members, seeds, cur_seed>>
  /\ UNCHANGED <<insert_rows, insert_outcome, index_result>>
  /\ UNCHANGED <<qvars, store_errors, evars>>

\* chunk_text raises in sent_tokenize (line 45), process_pdf_for_bigquery
\* returns the dict of its except clause
IngestChunkRaises ==
  /\ d_pc = "indexing"
  /\ cpc = "call"
  /\ cpc' = "raised"
  /\ ipc' = "done"
  /\ index_result' = Bound(ProcessError)
  /\ d_result' = Bound(create_document_result(db_rows[Len(db_rows)], ProcessError))
  /\ d_path' = "chunk_raised"
  /\ d_pc' = "done"
  /\ UNCHANGED tvars
  /\ UNCHANGED pvars
  /\ UNCHANGED searched
  /\ UNCHANGED <<bq_configured, db_rows>>
  /\ UNCHANGED <<text, doc_id, chunk_size, chunk_overlap, sentences, sidx, current_chunk,
                 chunk_id, chunks, members, cur_members, seeds, cur_seed>>
  /\ UNCHANGED <<insert_rows, insert_outcome>>
  /\ UNCHANGED <<qvars, store_errors, evars>>

\* process_pdf_for_bigquery has returned: lines 90-97
IngestIndexed ==
  /\ d_pc = "indexing"
  /\ ipc = "done"
  /\ d_result' = Bound(create_document_result(db_rows[Len(db_rows)], index_result.value))
  /\ d_path' = "indexed"
  /\ d_pc' = "done"
  /\ UNCHANGED tvars
  /\ UNCHANGED pvars
  /\ UNCHANGED searched
  /\ UNCHANGED <<bq_configured, db_rows>>
  /\ UNCHANGED <<cvars, qvars, store_errors, evars, ivars>>

IngestNext ==
  \/ IngestRejected
  \/ IngestCommitRaises
  \/ IngestCommit
  \/ IngestNotConfigured
  \/ IngestNoRawText
  \/ IngestSetupRaises
  \/ IngestStartIndex
  \/ IngestChunkRaises
  \/ IngestIndexed
  \/ ChunkNext
  \/ IndexStore

SpecIngest == IngestInit /\ [][IngestNext]_vars

-----------------------------------------------------------------------------
(* A direct call of LLMService.analyze_query_intent *)

ChunkIdle ==
  /\ text = <<>>
  /\ doc_id = <<>>
  /\ chunk_size = 1
  /\ chunk_overlap = 1
  /\ sentences = <<>>
  /\ sidx = 1
  /\ current_chunk = <<>>
  /\ chunk_id = 0
  /\ chunks = <<>>
  /\ cpc = "idle"
  /\ members = <<>>
  /\ cur_members = <<>>
  /\ seeds = <<>>
  /\ cur_seed = <<>>

IntentInit ==
  /\ ChunkIdle
  /\ model \in {"None", "gemini-2.0-flash"}
  /\ query \in Queries
  /\ endpoint = "classify"
  /\ pc = "call"
  /\ limit = 0
  /\ intent = Unbound
  /\ llm_calls = 0
  /\ last_resp = Unbound
  /\ search_queries = Unbound
  /\ enhanced_query = Unbound
  /\ qidx = 1
  /\ all_chunks = <<>>
  /\ seen_chunk_ids = {}
  /\ raw = <<>>
  /\ limits_sent = <<>>
  /\ response = Unbound
  /\ store_errors = <<>>
  /\ EscapeIdle
  /\ StagesIdle
  /\ PromptIdle
  /\ searched = <<>>
  /\ DocumentIdle
  /\ IndexIdle

\* lines 43-45: the model is unavailable
ClassifyUnavailable ==
  /\ endpoint = "classify"
  /\ pc = "call"
  /\ ~IsAvailable(model)
  /\ intent' = Bound(analyze_query_intent(model, query, [raises |-> TRUE]))
  /\ pc' = "done"
  /\ UNCHANGED tvars
  /\ UNCHANGED pvars
  /\ UNCHANGED searched
  /\ UNCHANGED dvars
  /\ UNCHANGED <<model, query, limit, llm_calls, last_resp, endpoint, search_queries,
                 enhanced_query, qidx, all_chunks, seen_chunk_ids, raw, limits_sent, response>>
  /\ UNCHANGED cvars
  /\ UNCHANGED <<store_errors, evars, ivars>>

\* lines 47-80: the model is called once and its answer parsed
ClassifyWithModel ==
  /\ endpoint = "classify"
  /\ pc = "call"
  /\ IsAvailable(model)
  /\ \E resp \in ModelResponses :
       /\ intent' = Bound(analyze_query_intent(model, query, resp))
       /\ last_resp' = Bound(resp)
  /\ llm_calls' = llm_calls + 1
  /\ pc' = "done"
  /\ UNCHANGED tvars
  /\ UNCHANGED pvars
  /\ UNCHANGED searched
  /\ UNCHANGED dvars
  /\ UNCHANGED <<model, query, limit, endpoint, search_queries,
                 enhanced_query, qidx, all_chunks, seen_chunk_ids, raw, limits_sent, response>>
  /\ UNCHANGED cvars
  /\ UNCHANGED <<store_errors, evars, ivars>>

IntentNext ==
  \/ ClassifyUnavailable
  \/ ClassifyWithModel

SpecIntent == IntentInit /\ [][IntentNext]_vars

-----------------------------------------------------------------------------
(* The handlers search_document_chunks (/search-chunks) and                  *)
(* chat_with_documents (/chat), with the store configured                    *)

SearchQueries == {"compare D1 and D2", "what about (theft)?"}

HandlerInit ==
  /\ ChunkIdle
  /\ model \in {"None", "gemini-2.0-flash"}
  /\ query \in SearchQueries
  /\ \/ endpoint = "search" /\ limit \in (0 - MaxNegLimit)..MaxLimit
     \/ endpoint = "chat" /\ limit = 0
  /\ pc = "start"
  /\ intent = Unbound
  /\ llm_calls = 0
  /\ last_resp = Unbound
  /\ search_queries = Unbound
  /\ enhanced_query = Unbound
  /\ qidx = 1
  /\ all_chunks = <<>>
  /\ seen_chunk_ids = {}
  /\ raw = <<>>
  /\ limits_sent = <<>>
  /\ response = Unbound
  /\ store_errors = <<>>
  /\ EscapeIdle
  /\ StagesIdle
  /\ PromptIdle
  /\ searched = <<>>
  /\ DocumentIdle
  /\ IndexIdle

\* search 228-231: without the model the original query is searched as it is
SearchWithoutModel ==
  /\ endpoint = "search"
  /\ pc = "start"
  /\ ~IsAvailable(model)
  /\ enhanced_query' = Bound(JStr(query))
  /\ pc' = "retrieve"
  /\ UNCHANGED tvars
  /\ UNCHANGED pvars
  /\ UNCHANGED searched
  /\ UNCHANGED dvars
  /\ UNCHANGED <<model, query, limit, intent, llm_calls, last_resp, endpoint, search_queries,
                 qidx, all_chunks, seen_chunk_ids, raw, limits_sent, response>>
  /\ UNCHANGED cvars
  /\ UNCHANGED <<store_errors, evars, ivars>>

\* chat 313-317, 380-387: without the model the request fails
ChatWithoutModel ==
  /\ endpoint = "chat"
  /\ pc = "start"
  /\ ~IsAvailable(model)
  /\ response' = Bound([status |-> 500])
  /\ pc' = "done"
  /\ UNCHANGED tvars
  /\ UNCHANGED pvars
  /\ UNCHANGED searched
  /\ UNCHANGED dvars
  /\ UNCHANGED <<model, query, limit, intent, llm_calls, last_resp, endpoint, search_queries,
                 enhanced_query, qidx, all_chunks, seen_chunk_ids, raw, limits_sent>>
  /\ UNCHANGED cvars
  /\ UNCHANGED <<store_errors, evars, ivars>>

\* search 234, chat 320: intent = llm_service.analyze_query_intent(query)
HandlerAnalyze ==
  /\ endpoint \in {"search", "chat"}
  /\ pc = "start"
  /\ IsAvailable(model)
  /\ \E resp \in ModelResponses : intent' = Bound(analyze_query_intent(model, query, resp))
  /\ llm_calls' = llm_calls + 1
  /\ pc' = "plan"
  /\ UNCHANGED tvars
  /\ UNCHANGED pvars
  /\ UNCHANGED searched
  /\ UNCHANGED dvars
  /\ UNCHANGED <<model, query, limit, last_resp, endpoint, search_queries, enhanced_query,
                 qidx, all_chunks, seen_chunk_ids, raw, limits_sent, response>>
  /\ UNCHANGED cvars
  /\ UNCHANGED <<store_errors, evars, ivars>>

\* search 238-239, chat 325-327: several search queries for a complex intent
HandlerMultiQuery ==
  /\ pc = "plan"
  /\ TypeOf(intent.value) \in MultiQueryTypes
  /\ \E resp \in ModelResponses :
       search_queries' = Bound(generate_multi_query(model, query, resp))
  /\ llm_calls' = llm_calls + 1
  /\ pc' = "retrieve"
  /\ UNCHANGED tvars
  /\ UNCHANGED pvars
  /\ UNCHANGED searched
  /\ UNCHANGED dvars
  /\ UNCHANGED <<model, query, limit, intent, last_resp, endpoint, enhanced_query,
                 qidx, all_chunks, seen_chunk_ids, raw, limits_sent, response>>
  /\ UNCHANGED cvars
  /\ UNCHANGED <<store_errors, evars, ivars>>

\* search 240-243, chat 328-331: one enhanced query otherwise;
\* enhance_search_query calls the model twice (lines 90 and 118 of llm.py)
HandlerEnhance ==
  /\ pc = "plan"
  /\ TypeOf(intent.value) \notin MultiQueryTypes
  /\ \E intent_resp \in ModelResponses, resp \in ModelResponses :
       LET enhanced == JStr(enhance_search_query(model, query, intent_resp, resp))
       IN  /\ enhanced_query' = Bound(enhanced)
           /\ search_queries' = Bound(<<enhanced>>)
  /\ llm_calls' = llm_calls + 2
  /\ pc' = "retrieve"
  /\ UNCHANGED tvars
  /\ UNCHANGED pvars
  /\ UNCHANGED searched
  /\ UNCHANGED dvars
  /\ UNCHANGED <<model, query, limit, intent, last_resp, endpoint,
                 qidx, all_chunks, seen_chunk_ids, raw, limits_sent, response>>
  /\ UNCHANGED cvars
  /\ UNCHANGED <<store_errors, evars, ivars>>

\* the limit argument of the search for one of n queries
\* mutant: a failed search is tried once more
NextIndexRetry(i, err, n) == IF err # "none" /\ n < i THEN i ELSE i + 1

\* the for loop over search_queries moves on to the next query, whatever
\* the search did; n searches were made before this one
NextIndex(i, err, n) == i + 1

QueryLimit(n) ==
  IF endpoint = "chat" THEN ChatPerQueryLimit ELSE PerQueryLimit(limit, n)

\* search 259-265, chat 345-351: one iteration of the loop over search_queries
RetrieveQuery ==
  /\ pc = "retrieve"
  /\ search_queries.bound
  /\ qidx <= Len(search_queries.value)
  /\ LET lim == QueryLimit(Len(search_queries.value))
     IN  /\ \E store \in StoreResults(lim, qidx) :
               LET rows == search_chunks(search_queries.value[qidx], store)
                   merged == Dedup(all_chunks, seen_chunk_ids, rows)
                   err == SearchError(search_queries.value[qidx], store)
               IN  /\ all_chunks' = merged.all
                   /\ seen_chunk_ids' = merged.seen
                   /\ raw' = Append(raw, rows)
                   /\ store_errors' = Append(store_errors, err)
                   /\ qidx' = NextIndex(qidx, err, Len(searched))
         /\ limits_sent' = Append(limits_sent, lim)
  /\ searched' = Append(searched, search_queries.value[qidx])
  /\ UNCHANGED tvars
  /\ UNCHANGED pvars
  /\ UNCHANGED dvars
  /\ UNCHANGED <<model, query, limit, intent, llm_calls, last_resp, endpoint, pc,
                 search_queries, enhanced_query, response>>
  /\ UNCHANGED cvars
  /\ UNCHANGED <<evars, ivars>>

\* search 266-268: search_queries is not bound, the single query's rows are
\* taken as they come
RetrieveSingle ==
  /\ pc = "retrieve"
  /\ ~search_queries.bound
  /\ \E store \in StoreResults(limit, 1) :
       LET rows == search_chunks(enhanced_query.value, store)
       IN  /\ all_chunks' = rows
           /\ raw' = Append(raw, rows)
           /\ store_errors' = Append(store_errors, SearchError(enhanced_query.value, store))
  /\ limits_sent' = Append(limits_sent, limit)
  /\ pc' = "respond"
  /\ searched' = Append(searched, enhanced_query.value)
  /\ UNCHANGED tvars
  /\ UNCHANGED pvars
  /\ UNCHANGED dvars
  /\ UNCHANGED <<model, query, limit, intent, llm_calls, last_resp, endpoint,
                 search_queries, enhanced_query, qidx, seen_chunk_ids, response>>
  /\ UNCHANGED cvars
  /\ UNCHANGED <<evars, ivars>>

\* the loop over search_queries is exhausted
RetrieveEnd ==
  /\ pc = "retrieve"
  /\ search_queries.bound
  /\ qidx > Len(search_queries.value)
  /\ pc' = "respond"
  /\ UNCHANGED tvars
  /\ UNCHANGED pvars
  /\ UNCHANGED searched
  /\ UNCHANGED dvars
  /\ UNCHANGED <<model, query, limit, intent, llm_calls, last_resp, endpoint,
                 search_queries, enhanced_query, qidx, all_chunks, seen_chunk_ids, raw,
                 limits_sent, response>>
  /\ UNCHANGED cvars
  /\ UNCHANGED <<store_errors, evars, ivars>>

\* search 270-284: convert, cut to the requested amount, return
SearchRespond ==
  /\ endpoint = "search"
  /\ pc = "respond"
  /\ LET text_chunks == [i \in 1..Len(all_chunks) |-> TextChunk(all_chunks[i])]
     IN  response' = Bound([status |-> 200, results |-> SliceTo(text_chunks, limit)])
  /\ pc' = "done"
  /\ UNCHANGED tvars
  /\ UNCHANGED pvars
  /\ UNCHANGED searched
  /\ UNCHANGED dvars
  /\ UNCHANGED <<model, query, limit, intent, llm_calls, last_resp, endpoint,
                 search_queries, enhanced_query, qidx, all_chunks, seen_chunk_ids, raw,
                 limits_sent>>
  /\ UNCHANGED cvars
  /\ UNCHANGED <<store_errors, evars, ivars>>

\* chat 364-369: nothing retrieved, the fixed answer is returned
ChatRespondEmpty ==
  /\ endpoint = "chat"
  /\ pc = "respond"
  /\ NoChunksFound(all_chunks)
  /\ response' = Bound([status |-> 200, answer |-> NoInfoAnswer, chunks |-> <<>>])
  /\ pc' = "done"
  /\ UNCHANGED tvars
  /\ UNCHANGED pvars
  /\ UNCHANGED searched
  /\ UNCHANGED dvars
  /\ UNCHANGED <<model, query, limit, intent, llm_calls, last_resp, endpoint,
                 search_queries, enhanced_query, qidx, all_chunks, seen_chunk_ids, raw,
                 limits_sent>>
  /\ UNCHANGED cvars
  /\ UNCHANGED <<store_errors, evars, ivars>>

\* chat 371-378: generate_response builds the prompt (which classifies the
\* query once more, llm.py 129) and asks the model for the answer
ChatRespondAnswer ==
  /\ endpoint = "chat"
  /\ pc = "respond"
  /\ ~NoChunksFound(all_chunks)
  /\ \E resp \in ModelResponses :
       response' = Bound([status |-> 200,
                          answer |-> generate_response(model,
                                      [i \in 1..Len(all_chunks) |-> TextChunk(all_chunks[i])], resp),
                          chunks |-> [i \in 1..Len(all_chunks) |-> TextChunk(all_chunks[i])]])
  /\ llm_calls' = llm_calls + 2
  /\ pc' = "done"
  /\ UNCHANGED tvars
  /\ UNCHANGED pvars
  /\ UNCHANGED searched
  /\ UNCHANGED dvars
  /\ UNCHANGED <<model, query, limit, intent, last_resp, endpoint,
                 search_queries, enhanced_query, qidx, all_chunks, seen_chunk_ids, raw,
                 limits_sent>>
  /\ UNCHANGED cvars
  /\ UNCHANGED <<store_errors, evars, ivars>>

HandlerNext ==
  \/ SearchWithoutModel
  \/ ChatWithoutModel
  \/ HandlerAnalyze
  \/ HandlerMultiQuery
  \/ HandlerEnhance
  \/ RetrieveQuery
  \/ RetrieveSingle
  \/ RetrieveEnd
  \/ SearchRespond
  \/ ChatRespondEmpty
  \/ ChatRespondAnswer

SpecHandler == HandlerInit /\ [][HandlerNext]_vars

-----------------------------------------------------------------------------
(* A direct call of LLMService.generate_response(query, chunks, history) *)

\* the chunks argument: TextChunks, or a list holding a raw row dict
SynthChunkLists ==
  {[i \in 1..Len(ids) |-> TextChunk(Rows(ids, 1)[i])] : ids \in IdLists(MaxRows)}
    \cup {<<[row |-> "dict"]>>}

SynthInit ==
  /\ ChunkIdle
  /\ EscapeIdle
  /\ StagesIdle
  /\ PromptIdle
  /\ searched = <<>>
  /\ DocumentIdle
  /\ IndexIdle
  /\ model \in {"None", "gemini-2.0-flash"}
  /\ query \in Queries
  /\ all_chunks \in SynthChunkLists
  /\ endpoint = "synthesize"
  /\ pc = "call"
  /\ limit = 0
  /\ intent = Unbound
  /\ llm_calls = 0
  /\ last_resp = Unbound
  /\ search_queries = Unbound
  /\ enhanced_query = Unbound
  /\ qidx = 1
  /\ seen_chunk_ids = {}
  /\ raw = <<>>
  /\ limits_sent = <<>>
  /\ response = Unbound
  /\ store_errors = <<>>

\* llm.py 212-213: the model is unavailable
SynthUnavailable ==
  /\ endpoint = "synthesize"
  /\ pc = "call"
  /\ ~IsAvailable(model)
  /\ response' = Bound([answer |-> generate_response(model, all_chunks, [raises |-> TRUE])])
  /\ pc' = "done"
  /\ UNCHANGED tvars
  /\ UNCHANGED pvars
  /\ UNCHANGED searched
  /\ UNCHANGED dvars
  /\ UNCHANGED <<model, query, limit, intent, llm_calls, last_resp, endpoint, search_queries,
                 enhanced_query, qidx, all_chunks, seen_chunk_ids, raw, limits_sent>>
  /\ UNCHANGED cvars
  /\ UNCHANGED <<store_errors, evars, ivars>>

\* llm.py 215-217, 223-225: generate_rag_prompt classifies the query (one
\* model call, line 129) and then raises while grouping the chunks
SynthPromptFails ==
  /\ endpoint = "synthesize"
  /\ pc = "call"
  /\ IsAvailable(model)
  /\ PromptRaises(all_chunks)
  /\ \E intent_resp \in ModelResponses :
       intent' = Bound(analyze_query_intent(model, query, intent_resp))
  /\ llm_calls' = llm_calls + 1
  /\ response' = Bound([answer |-> generate_response(model, all_chunks, [raises |-> TRUE])])
  /\ pc' = "done"
  /\ UNCHANGED tvars
  /\ UNCHANGED pvars
  /\ UNCHANGED searched
  /\ UNCHANGED dvars
  /\ UNCHANGED <<model, query, limit, last_resp, endpoint, search_queries,
                 enhanced_query, qidx, all_chunks, seen_chunk_ids, raw, limits_sent>>
  /\ UNCHANGED cvars
  /\ UNCHANGED <<store_errors, evars, ivars>>

\* llm.py 215-225: the prompt is built (one model call for the intent) and
\* submitted (a second model call)
SynthGenerate ==
  /\ endpoint = "synthesize"
  /\ pc = "call"
  /\ IsAvailable(model)
  /\ ~PromptRaises(all_chunks)
  /\ \E intent_resp \in ModelResponses :
       intent' = Bound(analyze_query_intent(model, query, intent_resp))
  /\ \E resp \in ModelResponses :
       /\ last_resp' = Bound(resp)
       /\ response' = Bound([answer |-> generate_response(model, all_chunks, resp)])
  /\ llm_calls' = llm_calls + 2
  /\ pc' = "done"
  /\ UNCHANGED tvars
  /\ UNCHANGED pvars
  /\ UNCHANGED searched
  /\ UNCHANGED dvars
  /\ UNCHANGED <<model, query, limit, endpoint, search_queries,
                 enhanced_query, qidx, all_chunks, seen_chunk_ids, raw, limits_sent>>
  /\ UNCHANGED cvars
  /\ UNCHANGED <<store_errors, evars, ivars>>

SynthNext ==
  \/ SynthUnavailable
  \/ SynthPromptFails
  \/ SynthGenerate

SpecSynth == SynthInit /\ [][SynthNext]_vars

-----------------------------------------------------------------------------
(* A direct call of LLMService.generate_rag_prompt.  The prompt is kept as   *)
(* the sequence of the parts the f-string of lines 193-206 puts together.    *)

\* the TextChunk values of the calls
PromptChunkValues ==
  [doc_id : {"D1", "D2"}, filename : {"a.pdf", "b.pdf"}, text : {"t1", "t2"}]

PromptChunkLists == UNION {[1..n -> PromptChunkValues] : n \in 0..MaxPromptChunks}

User == [role |-> "user", content |-> "hello"]

Assistant == [role |-> "assistant", content |-> "hi"]

\* history: None, or a list of ChatMessage
Histories ==
  {Unbound} \cup {Bound(h) : h \in {<<>>, <<User>>, <<User, Assistant>>, <<Assistant, User>>}}

\* the position of doc in the keys of cases, 0 if it is no key
CaseIndex(cases, doc) ==
  IF \E k \in 1..Len(cases) : cases[k].doc_id = doc
  THEN CHOOSE k \in 1..Len(cases) : cases[k].doc_id = doc
  ELSE 0

\* mutant: every chunk opens a case of its own
RECURSIVE GroupEachFrom(_, _, _)
GroupEachFrom(cs, i, cases) ==
  IF i > Len(cs) THEN cases
  ELSE GroupEachFrom(cs, i + 1, Append(cases, [doc_id |-> cs[i].doc_id, chunks |-> <<cs[i]>>]))

\* lines 132-136: cases, a dict in insertion order, as the sequence of its
\* items; the loop from chunk i on
RECURSIVE GroupFrom(_, _, _)
GroupFrom(cs, i, cases) ==
  IF i > Len(cs) THEN cases
  ELSE LET k == CaseIndex(cases, cs[i].doc_id)
       IN  IF k = 0
           THEN GroupFrom(cs, i + 1, Append(cases, [doc_id |-> cs[i].doc_id, chunks |-> <<cs[i]>>]))
           ELSE GroupFrom(cs, i + 1,
                          [cases EXCEPT ![k].chunks = Append(cases[k].chunks, cs[i])])

\* lines 140-149: the section of one case
Section(case) ==
  [part |-> "section",
   filename |-> IF case.chunks # <<>> THEN case.chunks[1].filename ELSE "Unknown",
   doc_id |-> case.doc_id,
   texts |-> [j \in 1..Len(case.chunks) |-> case.chunks[j].text]]

\* line 151: the sections joined by the separator line
RECURSIVE JoinSections(_)
JoinSections(cases) ==
  IF cases = <<>> THEN <<>>
  ELSE IF Len(cases) = 1 THEN <<Section(cases[1])>>
  ELSE <<Section(cases[1]), [part |-> "separator"]>> \o JoinSections(Tail(cases))

\* lines 154-159: the transcript of the history
ConversationHistory(history) ==
  IF history.bound /\ history.value # <<>>
  THEN <<[part |-> "history_header"]>>
         \o [j \in 1..Len(history.value) |->
               [part |-> "turn", role |-> history.value[j].role,
                content |-> history.value[j].content]]
  ELSE <<>>

\* mutant: relationship questions get the general instructions
SystemRoleNoRelationship(ty) ==
  IF ty = "comparison" THEN "comparing legal cases"
  ELSE IF ty = "pattern" THEN "identifying patterns across cases"
  ELSE IF ty = "timeline" THEN "analyzing relationships and chronology"
  ELSE "extracting insights from legal case files"

\* lines 162-190: system_role, named by the specialisation its text states
SystemRole(ty) ==
  IF ty = "comparison" THEN "comparing legal cases"
  ELSE IF ty = "pattern" THEN "identifying patterns across cases"
  ELSE IF ty = "timeline" \/ ty = "relationship" THEN "analyzing relationships and chronology"
  ELSE "extracting insights from legal case files"

\* lines 131-208, given the intent that line 129 obtained
generate_rag_prompt(q, cs, history, i) ==
  <<[part |-> "system_role", role |-> SystemRole(TypeOf(i))], [part |-> "format"]>>
    \o ConversationHistory(history)
    \o <<[part |-> "context_header"]>>
    \o JoinSections(GroupFrom(cs, 1, <<>>))
    \o <<[part |-> "question", query |-> q], [part |-> "answer"]>>

PromptQueries == {"compare D1 and D2", "who is Mr. X"}

PromptInit ==
  /\ ChunkIdle
  /\ EscapeIdle
  /\ StagesIdle
  /\ searched = <<>>
  /\ DocumentIdle
  /\ IndexIdle
  /\ model \in {"None", "gemini-2.0-flash"}
  /\ query \in PromptQueries
  /\ endpoint = "prompt"
  /\ pc = "call"
  /\ limit = 0
  /\ intent = Unbound
  /\ llm_calls = 0
  /\ last_resp = Unbound
  /\ search_queries = Unbound
  /\ enhanced_query = Unbound
  /\ qidx = 1
  /\ all_chunks = <<>>
  /\ seen_chunk_ids = {}
  /\ raw = <<>>
  /\ limits_sent = <<>>
  /\ response = Unbound
  /\ store_errors = <<>>
  /\ p_chunks \in PromptChunkLists
  /\ p_history \in Histories
  /\ p_prompt = Unbound
  /\ p_pc = "call"

\* the model is unavailable: line 129 gets the fallback intent without a call
PromptUnavailable ==
  /\ p_pc = "call"
  /\ ~IsAvailable(model)
  /\ LET i == analyze_query_intent(model, query, [raises |-> TRUE])
     IN  /\ intent' = Bound(i)
         /\ p_prompt' = Bound(generate_rag_prompt(query, p_chunks, p_history, i))
  /\ p_pc' = "done"
  /\ pc' = "done"
  /\ UNCHANGED tvars
  /\ UNCHANGED <<p_chunks, p_history>>
  /\ UNCHANGED <<model, query, limit, llm_calls, last_resp, endpoint, search_queries,
                 enhanced_query, qidx, all_chunks, seen_chunk_ids, raw, limits_sent, response>>
  /\ UNCHANGED <<cvars, store_errors, evars, ivars, dvars, searched>>

\* line 129 classifies the query with one model call, lines 131-208 build the
\* prompt
PromptBuild ==
  /\ p_pc = "call"
  /\ IsAvailable(model)
  /\ \E intent_resp \in ModelResponses :
       LET i == analyze_query_intent(model, query, intent_resp)
       IN  /\ intent' = Bound(i)
           /\ p_prompt' = Bound(generate_rag_prompt(query, p_chunks, p_history, i))
  /\ llm_calls' = llm_calls + 1
  /\ p_pc' = "done"
  /\ pc' = "done"
  /\ UNCHANGED tvars
  /\ UNCHANGED <<p_chunks, p_history>>
  /\ UNCHANGED <<model, query, limit, last_resp, endpoint, search_queries,
                 enhanced_query, qidx, all_chunks, seen_chunk_ids, raw, limits_sent, response>>
  /\ UNCHANGED <<cvars, store_errors, evars, ivars, dvars, searched>>

PromptNext ==
  \/ PromptUnavailable
  \/ PromptBuild

SpecPrompt == PromptInit /\ [][PromptNext]_vars

-----------------------------------------------------------------------------
(* Query expansion on its own: the branch of documents.py 238-243 / 325-331, *)
(* i.e. generate_multi_query or enhance_search_query, for a given intent     *)

ExpandIntents == {IntentObj(ty) : ty \in IntentTypes \cup {"summary"}}

ExpandInit ==
  /\ ChunkIdle
  /\ EscapeIdle
  /\ StagesIdle
  /\ PromptIdle
  /\ searched = <<>>
  /\ DocumentIdle
  /\ IndexIdle
  /\ model \in {"None", "gemini-2.0-flash"}
  /\ query \in Queries
  /\ intent \in {Bound(i) : i \in ExpandIntents}
  /\ endpoint = "expand"
  /\ pc = "call"
  /\ limit = 0
  /\ llm_calls = 0
  /\ last_resp = Unbound
  /\ search_queries = Unbound
  /\ enhanced_query = Unbound
  /\ qidx = 1
  /\ all_chunks = <<>>
  /\ seen_chunk_ids = {}
  /\ raw = <<>>
  /\ limits_sent = <<>>
  /\ response = Unbound
  /\ store_errors = <<>>

\* generate_multi_query without the model (llm.py 229-230)
ExpandMultiUnavailable ==
  /\ endpoint = "expand"
  /\ pc = "call"
  /\ TypeOf(intent.value) \in MultiQueryTypes
  /\ ~IsAvailable(model)
  /\ search_queries' = Bound(generate_multi_query(model, query, [raises |-> TRUE]))
  /\ pc' = "done"
  /\ UNCHANGED tvars
  /\ UNCHANGED pvars
  /\ UNCHANGED searched
  /\ UNCHANGED dvars
  /\ UNCHANGED <<model, query, limit, intent, llm_calls, last_resp, endpoint,
                 enhanced_query, qidx, all_chunks, seen_chunk_ids, raw, limits_sent, response>>
  /\ UNCHANGED cvars
  /\ UNCHANGED <<store_errors, evars, ivars>>

\* generate_multi_query with the model (llm.py 232-252): one model call
ExpandMulti ==
  /\ endpoint = "expand"
  /\ pc = "call"
  /\ TypeOf(intent.value) \in MultiQueryTypes
  /\ IsAvailable(model)
  /\ \E resp \in ModelResponses :
       /\ search_queries' = Bound(generate_multi_query(model, query, resp))
       /\ last_resp' = Bound(resp)
  /\ llm_calls' = llm_calls + 1
  /\ pc' = "done"
  /\ UNCHANGED tvars
  /\ UNCHANGED pvars
  /\ UNCHANGED searched
  /\ UNCHANGED dvars
  /\ UNCHANGED <<model, query, limit, intent, endpoint,
                 enhanced_query, qidx, all_chunks, seen_chunk_ids, raw, limits_sent, response>>
  /\ UNCHANGED cvars
  /\ UNCHANGED <<store_errors, evars, ivars>>

\* enhance_search_query without the model (llm.py 84-86)
ExpandSingleUnavailable ==
  /\ endpoint = "expand"
  /\ pc = "call"
  /\ TypeOf(intent.value) \notin MultiQueryTypes
  /\ ~IsAvailable(model)
  /\ LET enhanced == JStr(enhance_search_query(model, query, [raises |-> TRUE], [raises |-> TRUE]))
     IN  /\ enhanced_query' = Bound(enhanced)
         /\ search_queries' = Bound(<<enhanced>>)
  /\ pc' = "done"
  /\ UNCHANGED tvars
  /\ UNCHANGED pvars
  /\ UNCHANGED searched
  /\ UNCHANGED dvars
  /\ UNCHANGED <<model, query, limit, intent, llm_calls, last_resp, endpoint,
                 qidx, all_chunks, seen_chunk_ids, raw, limits_sent, response>>
  /\ UNCHANGED cvars
  /\ UNCHANGED <<store_errors, evars, ivars>>

\* enhance_search_query with the model (llm.py 88-124): a model call for the
\* intent, then the call for the search terms (recorded in last_resp)
ExpandSingle ==
  /\ endpoint = "expand"
  /\ pc = "call"
  /\ TypeOf(intent.value) \notin MultiQueryTypes
  /\ IsAvailable(model)
  /\ \E intent_resp \in ModelResponses, resp \in ModelResponses :
       LET enhanced == JStr(enhance_search_query(model, query, intent_resp, resp))
       IN  /\ enhanced_query' = Bound(enhanced)
           /\ search_queries' = Bound(<<enhanced>>)
           /\ last_resp' = Bound(resp)
  /\ llm_calls' = llm_calls + 2
  /\ pc' = "done"
  /\ UNCHANGED tvars
  /\ UNCHANGED pvars
  /\ UNCHANGED searched
  /\ UNCHANGED dvars
  /\ UNCHANGED <<model, query, limit, intent, endpoint,
                 qidx, all_chunks, seen_chunk_ids, raw, limits_sent, response>>
  /\ UNCHANGED cvars
  /\ UNCHANGED <<store_errors, evars, ivars>>

ExpandNext ==
  \/ ExpandMultiUnavailable
  \/ ExpandMulti
  \/ ExpandSingleUnavailable
  \/ ExpandSingle

SpecExpand == ExpandInit /\ [][ExpandNext]_vars

-----------------------------------------------------------------------------
(* search_chunks on its own: the query is a sequence of characters, escaped  *)
(* as bigquery_storage.py 145-148 does and handed to the store               *)

QueryChars == {"a", "\\", "?", "'", "/"}

SearchInputs == UNION {[1..n -> QueryChars] : n \in 0..MaxQueryLen}

\* mutant: the backslash is escaped after the other characters
special_chars_backslash_last ==
  <<"?", "!", "\"", "'", "+", "-", "=", "&", "|", ">", "<", "(", ")",
    "{", "}", "[", "]", "^", "~", "*", ":", "/", "\\">>

\* special_chars, in the order of the list (the backslash comes first)
special_chars ==
  <<"\\", "?", "!", "\"", "'", "+", "-", "=", "&", "|", ">", "<", "(", ")",
    "{", "}", "[", "]", "^", "~", "*", ":", "/">>

\* s.replace(char, "\\" + char) for a single character char
RECURSIVE ReplaceChar(_, _)
ReplaceChar(s, char) ==
  IF s = <<>> THEN <<>>
  ELSE (IF Head(s) = char THEN <<"\\", char>> ELSE <<Head(s)>>) \o ReplaceChar(Tail(s), char)

\* the loop over special_chars from position i on
RECURSIVE EscapeFrom(_, _)
EscapeFrom(s, i) ==
  IF i > Len(special_chars) THEN s
  ELSE EscapeFrom(ReplaceChar(s, special_chars[i]), i + 1)

Escape(s) == EscapeFrom(s, 1)

SearchChunksInit ==
  /\ ChunkIdle
  /\ QueryIdle
  /\ IndexIdle
  /\ StagesIdle
  /\ PromptIdle
  /\ searched = <<>>
  /\ DocumentIdle
  /\ s_query \in SearchInputs
  /\ escaped_query = <<>>
  /\ s_result = Unbound
  /\ s_pc = "call"

\* search_chunks(query, limit): escape, run the query, return the rows or []
SearchChunksCall ==
  /\ s_pc = "call"
  /\ escaped_query' = Escape(s_query)
  /\ \E store \in StoreResults(MaxRows, 1) :
       s_result' = Bound(IF store.raises THEN <<>> ELSE store.rows)
  /\ s_pc' = "done"
  /\ UNCHANGED tvars
  /\ UNCHANGED pvars
  /\ UNCHANGED searched
  /\ UNCHANGED dvars
  /\ UNCHANGED s_query
  /\ UNCHANGED cvars
  /\ UNCHANGED qvars
  /\ UNCHANGED <<store_errors, ivars>>

SearchChunksNext == SearchChunksCall

SpecSearchChunks == SearchChunksInit /\ [][SearchChunksNext]_vars

-----------------------------------------------------------------------------
(* The stages of one /chat request and the classification each of them makes. *)
(* The retrieval loop is reduced to its outcome: some chunk or none.          *)

StageInit ==
  /\ ChunkIdle
  /\ EscapeIdle
  /\ IndexIdle
  /\ DocumentIdle
  /\ PromptIdle
  /\ StagesIdle
  /\ searched = <<>>
  /\ model \in {"None", "gemini-2.0-flash"}
  /\ query \in SearchQueries
  /\ endpoint = "stages"
  /\ pc = "start"
  /\ limit = 0
  /\ intent = Unbound
  /\ llm_calls = 0
  /\ last_resp = Unbound
  /\ search_queries = Unbound
  /\ enhanced_query = Unbound
  /\ qidx = 1
  /\ all_chunks = <<>>
  /\ seen_chunk_ids = {}
  /\ raw = <<>>
  /\ limits_sent = <<>>
  /\ response = Unbound
  /\ store_errors = <<>>

\* documents.py 313-317: without the model the request is refused
StageUnavailable ==
  /\ endpoint = "stages"
  /\ pc = "start"
  /\ ~IsAvailable(model)
  /\ response' = Bound([status |-> 500])
  /\ pc' = "done"
  /\ UNCHANGED <<model, query, limit, intent, llm_calls, last_resp, endpoint, search_queries,
                 enhanced_query, qidx, all_chunks, seen_chunk_ids, raw, limits_sent>>
  /\ UNCHANGED <<cvars, store_errors, evars, ivars, dvars, searched, pvars, tvars>>

\* documents.py 320: the handler classifies the query
StageClassify ==
  /\ endpoint = "stages"
  /\ pc = "start"
  /\ IsAvailable(model)
  /\ \E resp \in ModelResponses :
       intent' = Bound(analyze_query_intent(model, query, resp))
  /\ llm_calls' = llm_calls + 1
  /\ pc' = "expand"
  /\ UNCHANGED <<model, query, limit, last_resp, endpoint, search_queries,
                 enhanced_query, qidx, all_chunks, seen_chunk_ids, raw, limits_sent, response>>
  /\ UNCHANGED <<cvars, store_errors, evars, ivars, dvars, searched, pvars, tvars>>

\* documents.py 325-327: generate_multi_query, which does not classify
StageExpandMulti ==
  /\ endpoint = "stages"
  /\ pc = "expand"
  /\ TypeOf(intent.value) \in MultiQueryTypes
  /\ \E resp \in ModelResponses :
       search_queries' = Bound(generate_multi_query(model, query, resp))
  /\ llm_calls' = llm_calls + 1
  /\ pc' = "retrieve"
  /\ UNCHANGED <<model, query, limit, intent, last_resp, endpoint,
                 enhanced_query, qidx, all_chunks, seen_chunk_ids, raw, limits_sent, response>>
  /\ UNCHANGED <<cvars, store_errors, evars, ivars, dvars, searched, pvars, tvars>>

\* documents.py 328-331: enhance_search_query, which classifies the query
\* again (llm.py 90) to choose its prompt
StageExpandSingle ==
  /\ endpoint = "stages"
  /\ pc = "expand"
  /\ TypeOf(intent.value) \notin MultiQueryTypes
  /\ \E intent_resp \in ModelResponses, resp \in ModelResponses :
       LET enhanced == JStr(enhance_search_query(model, query, intent_resp, resp))
       IN  /\ enhance_intent' = Bound(analyze_query_intent(model, query, intent_resp))
           /\ enhanced_query' = Bound(enhanced)
           /\ search_queries' = Bound(<<enhanced>>)
  /\ llm_calls' = llm_calls + 2
  /\ pc' = "retrieve"
  /\ UNCHANGED prompt_intent
  /\ UNCHANGED <<model, query, limit, intent, last_resp, endpoint,
                 qidx, all_chunks, seen_chunk_ids, raw, limits_sent, response>>
  /\ UNCHANGED <<cvars, store_errors, evars, ivars, dvars, searched, pvars>>

\* documents.py 341-362: the retrieval found some chunk or none
StageRetrieve ==
  /\ endpoint = "stages"
  /\ pc = "retrieve"
  /\ \E found \in {<<>>, Rows(<<"D1_0">>, 1)} : all_chunks' = found
  /\ pc' = "respond"
  /\ UNCHANGED <<model, query, limit, intent, llm_calls, last_resp, endpoint, search_queries,
                 enhanced_query, qidx, seen_chunk_ids, raw, limits_sent, response>>
  /\ UNCHANGED <<cvars, store_errors, evars, ivars, dvars, searched, pvars, tvars>>

\* documents.py 365-369: nothing found, no synthesis
StageAnswerEmpty ==
  /\ endpoint = "stages"
  /\ pc = "respond"
  /\ NoChunksFound(all_chunks)
  /\ response' = Bound([status |-> 200, answer |-> NoInfoAnswer])
  /\ pc' = "done"
  /\ UNCHANGED <<model, query, limit, intent, llm_calls, last_resp, endpoint, search_queries,
                 enhanced_query, qidx, all_chunks, seen_chunk_ids, raw, limits_sent>>
  /\ UNCHANGED <<cvars, store_errors, evars, ivars, dvars, searched, pvars, tvars>>

\* documents.py 372-378: generate_response; generate_rag_prompt classifies
\* the query once more (llm.py 129) to choose the system role
StageAnswer ==
  /\ endpoint = "stages"
  /\ pc = "respond"
  /\ ~NoChunksFound(all_chunks)
  /\ \E intent_resp \in ModelResponses :
       prompt_intent' = Bound(analyze_query_intent(model, query, intent_resp))
  /\ \E resp \in {[raises |-> TRUE], [raises |-> FALSE, text |-> "7"]} :
       response' = Bound([status |-> 200,
                          answer |-> generate_response(model,
                                      [i \in 1..Len(all_chunks) |-> TextChunk(all_chunks[i])], resp)])
  /\ llm_calls' = llm_calls + 2
  /\ pc' = "done"
  /\ UNCHANGED enhance_intent
  /\ UNCHANGED <<model, query, limit, intent, last_resp, endpoint, search_queries,
                 enhanced_query, qidx, all_chunks, seen_chunk_ids, raw, limits_sent>>
  /\ UNCHANGED <<cvars, store_errors, evars, ivars, dvars, searched, pvars>>

StageNext ==
  \/ StageUnavailable
  \/ StageClassify
  \/ StageExpandMulti
  \/ StageExpandSingle
  \/ StageRetrieve
  \/ StageAnswerEmpty
  \/ StageAnswer

SpecStages == StageInit /\ [][StageNext]_vars

-----------------------------------------------------------------------------
(* One request to the core: a query request or an index call *)

RequestInit ==
  \/ HandlerInit
  \/ IndexInit

RequestNext ==
  \/ HandlerNext
  \/ IndexNext

SpecRequest == RequestInit /\ [][RequestNext]_vars

-----------------------------------------------------------------------------
(* Properties of the chunker *)

ChunkDone == cpc = "done"

\* the sentences with the given indices, each followed by one space, as the
\* loop appends them to the buffer
RECURSIVE Body(_)
Body(idxs) ==
  IF idxs = <<>> THEN <<>> ELSE sentences[Head(idxs)] \o <<" ">> \o Body(Tail(idxs))

RECURSIVE Flatten(_)
Flatten(ss) == IF ss = <<>> THEN <<>> ELSE Head(ss) \o Flatten(Tail(ss))

\* C4: the k-th chunk produced (k from 0) has chunk_id = doc_id + "_" + k and
\* carries doc_id, so no two chunks of one call share a chunk_id.
C4_ChunkIdsSequential ==
  /\ \A k \in 1..Len(chunks) :
       /\ chunks[k].chunk_id = doc_id \o <<"_">> \o IntToStr(k - 1)
       /\ chunks[k].doc_id = doc_id
  /\ \A j, k \in 1..Len(chunks) : j # k => chunks[j].chunk_id # chunks[k].chunk_id

C4_Witness == ChunkDone /\ Len(chunks) >= 3

\* C5: every chunk's trimmed text is at most chunk_size long, except a chunk
\* that wraps a single sentence which is itself longer than chunk_size.
C5_ChunkLengthBound ==
  \A k \in 1..Len(chunks) :
    \/ Len(chunks[k].text) <= chunk_size
    \/ /\ Len(members[k]) = 1
       /\ Len(sentences[members[k][1]]) > chunk_size

\* C6: every sentence is appended whole to exactly one chunk, in order; each
\* chunk is its seeded overlap followed by its sentences, and the chunks'
\* sentences, concatenated in order, are the original sentence sequence.
C6_SentenceCoverage ==
  ChunkDone =>
    /\ Len(members) = Len(chunks)
    /\ Flatten(members) = [i \in 1..Len(sentences) |-> i]
    /\ \A k \in 1..Len(chunks) :
         /\ members[k] # <<>>
         /\ chunks[k].text = LStrip(seeds[k]) \o RStrip(Body(members[k]))
    /\ Len(chunks) >= 1 => seeds[1] = <<>>

C6_Witness == ChunkDone /\ Len(chunks) >= 2 /\ Len(sentences) >= 3 /\ seeds[2] # <<>>

\* C7: when the sentences joined by single spaces total at most chunk_size
\* characters, exactly one chunk is returned, with chunk_id doc_id + "_0",
\* containing all the sentences.
C7_SingleChunk ==
  (ChunkDone /\ Len(sentences) >= 1
      /\ Len(RStrip(Body([i \in 1..Len(sentences) |-> i]))) <= chunk_size)
    => /\ Len(chunks) = 1
       /\ chunks[1].chunk_id = doc_id \o <<"_", "0">>
       /\ chunks[1].text = RStrip(Body([i \in 1..Len(sentences) |-> i]))

C7_Witness ==
  /\ ChunkDone
  /\ Len(sentences) = 3
  /\ Len(RStrip(Body(<<1, 2, 3>>))) = chunk_size
  /\ Len(chunks) = 1

\* C8: chunk_text on empty text returns an empty list.
C8_EmptyTextNoChunks == (ChunkDone /\ text = <<>>) => chunks = <<>>

C8_Witness == ChunkDone /\ text = <<>> /\ chunks = <<>>

\* C24: a sentence longer than chunk_size is the only sentence of its chunk
\* and stands there whole: the chunk is that sentence, preceded by the seeded
\* overlap when a chunk was closed before it and by nothing in the first chunk.
C24_OversizedSentenceAlone ==
  ChunkDone =>
    \A k \in 1..Len(chunks) :
      \A j \in 1..Len(members[k]) :
        Len(sentences[members[k][j]]) > chunk_size =>
          /\ Len(members[k]) = 1
          /\ chunks[k].text = LStrip(seeds[k]) \o sentences[members[k][1]]
          /\ seeds[k] = <<>> <=> k = 1

\* an oversized sentence between two short ones
C24_Witness ==
  /\ ChunkDone
  /\ Len(sentences) = 3
  /\ Len(chunks) = 3
  /\ Len(sentences[1]) <= chunk_size
  /\ Len(sentences[2]) > chunk_size
  /\ Len(sentences[3]) <= chunk_size
  /\ members[2] = <<2>>
  /\ seeds[2] # <<>>

\* the last n characters of s, all of s when it has no more than n
Suffix(s, n) == IF Len(s) <= n THEN s ELSE SubSeq(s, Len(s) - n + 1, Len(s))

IsPrefix(p, s) == Len(p) <= Len(s) /\ SubSeq(s, 1, Len(p)) = p

\* the buffer from which chunk k was made, before it was trimmed
Buffer(k) == seeds[k] \o Body(members[k])

\* one iteration of the loop: the buffer (non-empty) is closed exactly when
\* buffer and sentence together are longer than chunk_size, and the next
\* buffer is then the trailing overlap of the closed one plus the sentence
SeedingStep ==
  (cpc = "loop" /\ sidx <= Len(sentences)) =>
    LET s == sentences[sidx]
        exceeds == Len(current_chunk) + Len(s) > chunk_size
        closes == Len(chunks') = Len(chunks) + 1
    IN  /\ closes <=> (exceeds /\ current_chunk # <<>>)
        /\ closes =>
              /\ chunks'[Len(chunks')].text = Strip(current_chunk)
              /\ current_chunk' = Suffix(current_chunk, chunk_overlap) \o s \o <<" ">>
        /\ ~exceeds => current_chunk' = current_chunk \o s \o <<" ">>
        /\ ~closes => chunks' = chunks

\* C25: a chunk is closed exactly when the next sentence would take the
\* buffer beyond chunk_size (exactly chunk_size is accepted); the next buffer
\* starts with the trailing overlap characters of the closed buffer (all of it
\* when it is not longer) followed by the new sentence; so every chunk after
\* the first begins with a suffix of its predecessor's untrimmed buffer.
C25_OverlapSeeding ==
  /\ [][SeedingStep]_vars
  /\ [](ChunkDone =>
         \A k \in 2..Len(chunks) :
           /\ seeds[k] = Suffix(Buffer(k - 1), chunk_overlap)
           /\ IsPrefix(LStrip(seeds[k]), chunks[k].text))

\* two sentences filled the first chunk to exactly chunk_size, and the second
\* chunk starts with the overlap taken from it
C25_Witness ==
  /\ ChunkDone
  /\ Len(chunks) = 2
  /\ Len(members[1]) = 2
  /\ Len(chunks[1].text) = chunk_size
  /\ Len(Buffer(1)) > chunk_overlap
  /\ Len(seeds[2]) = chunk_overlap
  /\ LStrip(seeds[2]) # <<>>

-----------------------------------------------------------------------------
(* Properties of the classifier *)

ClassifyDone == endpoint = "classify" /\ pc = "done"

\* the model's answer is not a JSON object with a type field
NotAnIntent(t) ==
  LET v == json_loads(StripText(t))
  IN  v.kind # "object" \/ "type" \notin DOMAIN v.fields

\* C9: with the model unavailable, classify returns type "general" and
\* search_terms equal to the query, and the model is never called.
C9_ClassifierFallback ==
  (ClassifyDone /\ model = "None") =>
    /\ intent = [bound |-> TRUE,
                 value |-> [kind |-> "object",
                            fields |-> [type |-> [kind |-> "string", s |-> "general"],
                                        search_terms |-> [kind |-> "string", s |-> query]]]]
    /\ llm_calls = 0

C9_Witness == ClassifyDone /\ model = "None" /\ query = "what about (theft)?"

\* C10: with the model available, when the call raises or its output is not
\* JSON, not a JSON object, or an object without a type field, classify
\* returns exactly {type: general, search_terms: query}.
C10_ClassifierNeverFails ==
  (ClassifyDone /\ model # "None" /\ (last_resp.value.raises \/ NotAnIntent(last_resp.value.text))) =>
    /\ intent.bound
    /\ intent.value.kind = "object"
    /\ DOMAIN intent.value.fields = {"type", "search_terms"}
    /\ intent.value.fields["type"] = [kind |-> "string", s |-> "general"]
    /\ intent.value.fields["search_terms"] = [kind |-> "string", s |-> query]

C10_Witness ==
  /\ ClassifyDone
  /\ model # "None"
  /\ ~last_resp.value.raises
  /\ last_resp.value.text = "{\"search_terms\": \"k\"}"
  /\ query = "who is Mr. X"

-----------------------------------------------------------------------------
(* Properties of the retrieval *)

\* positions of s that hold the first occurrence of their chunk_id
FirstPositions(s) == {i \in 1..Len(s) : \A j \in 1..(i - 1) : s[j].chunk_id # s[i].chunk_id}

\* the subsequence of s at the positions in P
RECURSIVE Pick(_, _, _)
Pick(s, P, i) ==
  IF i > Len(s) THEN <<>>
  ELSE (IF i \in P THEN <<s[i]>> ELSE <<>>) \o Pick(s, P, i + 1)

FirstSeen(s) == Pick(s, FirstPositions(s), 1)

Occurrences(s, c) == Cardinality({i \in 1..Len(s) : s[i].chunk_id = c})

\* C1: in the loop over several search queries the merged list holds every
\* returned chunk_id exactly once, at the place of its first occurrence in
\* the concatenation of the per-query results.
C1_FirstSeenDedup ==
  (endpoint \in {"search", "chat"} /\ search_queries.bound) =>
    /\ all_chunks = FirstSeen(Flatten(raw))
    /\ \A i \in 1..Len(raw) : \A r \in 1..Len(raw[i]) :
         Occurrences(all_chunks, raw[i][r].chunk_id) = 1

\* two queries returned the same chunk_id, and a later query a new one
C1_Witness ==
  /\ search_queries.bound
  /\ pc = "respond"
  /\ Len(raw) = 3
  /\ raw[1] # <<>> /\ raw[2] # <<>> /\ Len(raw[3]) = 2
  /\ raw[1][1].chunk_id = raw[2][1].chunk_id
  /\ raw[3][1].chunk_id = raw[1][1].chunk_id
  /\ raw[3][2].chunk_id # raw[1][1].chunk_id
  /\ Len(all_chunks) = 2

SearchDone == endpoint = "search" /\ pc = "done"

\* C2 as stated: for every limit, negative ones included, /search-chunks
\* returns at most limit chunks.
C2_WithinLimitAnyLimit == SearchDone => Len(response.value.results) <= limit

\* C2 amended: for every limit >= 0, /search-chunks returns at most limit chunks.
C2_WithinLimit == (SearchDone /\ limit >= 0) => Len(response.value.results) <= limit

\* more chunks were retrieved than requested, and the answer was cut
C2_Witness ==
  /\ SearchDone
  /\ limit >= 1
  /\ Len(all_chunks) > limit
  /\ Len(response.value.results) = limit

\* C3: no two chunks returned by /search-chunks share a chunk_id, with or
\* without the generative model.
C3_ResultDeduplicated ==
  SearchDone =>
    \A i, j \in 1..Len(response.value.results) :
      i # j => response.value.results[i].chunk_id # response.value.results[j].chunk_id

\* C11: every intent returned by classify has a type in the fixed set
\* {comparison, pattern, timeline, entity, relationship, general}.
C11_IntentTypeInSet ==
  ClassifyDone =>
    /\ intent.bound
    /\ intent.value.kind = "object"
    /\ "type" \in DOMAIN intent.value.fields
    /\ intent.value.fields["type"].kind = "string"
    /\ intent.value.fields["type"].s \in IntentTypes

-----------------------------------------------------------------------------
(* Properties of the answer synthesis *)

\* C12: when retrieval found no chunk, the answer is the fixed "no relevant
\* information" message and the synthesis step calls the model zero times.
C12_EmptyChunksShortCircuit ==
  [][(endpoint = "chat" /\ pc = "respond" /\ all_chunks = <<>>) =>
        /\ response'.bound
        /\ response'.value.answer = NoInfoAnswer
        /\ response'.value.chunks = <<>>
        /\ llm_calls' = llm_calls]_vars

\* a /chat request that searched, found nothing and answered
C12_Witness ==
  /\ endpoint = "chat"
  /\ pc = "done"
  /\ Len(raw) >= 1
  /\ all_chunks = <<>>
  /\ response.value.status = 200
  /\ response.value.answer = NoInfoAnswer

SynthDone == endpoint = "synthesize" /\ pc = "done"

\* C13: generate_response always returns a string: the fixed unavailability
\* message, without any model call, when the model is unavailable; an error
\* description when building the prompt or generating raises; the model's
\* text, verbatim, when generation succeeds.
C13_SynthesizerContainsFailures ==
  SynthDone =>
    /\ response.bound
    /\ model = "None" =>
         /\ response.value.answer
              = "LLM service is not available. Please set the GEMINI_API_KEY environment variable."
         /\ llm_calls = 0
    /\ (model # "None" /\ \E i \in 1..Len(all_chunks) : "chunk_id" \notin DOMAIN all_chunks[i]) =>
         response.value.answer = "Error generating response: ..."
    /\ (model # "None" /\ last_resp.bound /\ last_resp.value.raises) =>
         response.value.answer = "Error generating response: ..."
    /\ (model # "None" /\ last_resp.bound /\ ~last_resp.value.raises) =>
         response.value.answer = last_resp.value.text

\* generation succeeded with a text that has surrounding whitespace
C13_Witness ==
  /\ SynthDone
  /\ model # "None"
  /\ all_chunks # <<>>
  /\ last_resp.bound
  /\ ~last_resp.value.raises
  /\ last_resp.value.text = " {\"type\": \"entity\", \"search_terms\": \"k\"}\n"
  /\ response.value.answer = last_resp.value.text

-----------------------------------------------------------------------------
(* Properties of the query expansion *)

ExpandDone == endpoint = "expand" /\ pc = "done"

IntentType == intent.value.fields["type"].s

IsMultiIntent == IntentType \in {"comparison", "pattern", "relationship"}

\* the model answered with JSON that is a non-empty list
AnsweredList ==
  /\ ~last_resp.value.raises
  /\ json_loads(StripText(last_resp.value.text)).kind = "list"
  /\ json_loads(StripText(last_resp.value.text)).items # <<>>

\* C14: without the model the expansion is exactly [query], and in every
\* branch the sequence of search strings has at least one element.
C14_ExpansionNonEmpty ==
  ExpandDone =>
    /\ search_queries.bound
    /\ Len(search_queries.value) >= 1
    /\ model = "None" =>
         /\ search_queries.value = <<[kind |-> "string", s |-> query]>>
         /\ llm_calls = 0

\* the model answered a multi-query request with an empty list
C14_Witness ==
  /\ ExpandDone
  /\ model # "None"
  /\ IsMultiIntent
  /\ ~last_resp.value.raises
  /\ last_resp.value.text = "[]"
  /\ Len(search_queries.value) = 1

\* C15 as stated: for a comparison, pattern or relationship intent with the
\* model available, the expansion is the model's parsed list of exactly 3
\* search strings, or [query] when the output is no non-empty list or the call
\* raises; for the other intents the multi-query branch is not taken.
C15_MultiQueryExactlyThree ==
  ExpandDone =>
    /\ (IsMultiIntent /\ model # "None" /\ AnsweredList) =>
         /\ search_queries.value = json_loads(StripText(last_resp.value.text)).items
         /\ Len(search_queries.value) = 3
         /\ \A i \in 1..Len(search_queries.value) : search_queries.value[i].kind = "string"
    /\ (IsMultiIntent /\ model # "None" /\ ~AnsweredList) =>
         search_queries.value = <<[kind |-> "string", s |-> query]>>
    /\ IsMultiIntent => ~enhanced_query.bound
    /\ ~IsMultiIntent => enhanced_query.bound /\ search_queries.value = <<enhanced_query.value>>

\* C15 amended: the parsed list is returned unchanged whenever it is a
\* non-empty list, whatever its length and elements; otherwise [query]; for
\* the other intents the multi-query branch is not taken.
C15_MultiQueryParsedList ==
  ExpandDone =>
    /\ (IsMultiIntent /\ model # "None" /\ AnsweredList) =>
         search_queries.value = json_loads(StripText(last_resp.value.text)).items
    /\ (IsMultiIntent /\ model # "None" /\ ~AnsweredList) =>
         search_queries.value = <<[kind |-> "string", s |-> query]>>
    /\ IsMultiIntent => ~enhanced_query.bound
    /\ ~IsMultiIntent => enhanced_query.bound /\ search_queries.value = <<enhanced_query.value>>

\* a relationship query for which the model answered with three strings
C15_Witness ==
  /\ ExpandDone
  /\ model # "None"
  /\ IntentType = "relationship"
  /\ ~last_resp.value.raises
  /\ last_resp.value.text = "[\"s1\", \"s2\", \"s3\"]"
  /\ Len(search_queries.value) = 3

\* C16: for the other intents with the model available the expansion has
\* exactly one element: the model's trimmed text, or the original query when
\* the call for the search terms raised.
C16_SingleQueryExpansion ==
  (ExpandDone /\ ~IsMultiIntent /\ model # "None") =>
    /\ Len(search_queries.value) = 1
    /\ last_resp.value.raises =>
         search_queries.value[1] = [kind |-> "string", s |-> query]
    /\ ~last_resp.value.raises =>
         search_queries.value[1] = [kind |-> "string", s |-> StripText(last_resp.value.text)]

\* an entity query whose call for the search terms raised
C16_Witness ==
  /\ ExpandDone
  /\ model # "None"
  /\ IntentType = "entity"
  /\ last_resp.value.raises
  /\ search_queries.value = <<[kind |-> "string", s |-> "who is Mr. X"]>>

-----------------------------------------------------------------------------
(* Properties of the retrieval loop *)

\* C17: a search whose store query fails while being built, executed or read
\* yields the empty sequence, and the loop still searches every remaining
\* query: past the loop there is one search per search query.
C17_SearchDegradation ==
  /\ Len(raw) = Len(store_errors)
  /\ \A i \in 1..Len(store_errors) : store_errors[i] # "none" => raw[i] = <<>>
  /\ (pc \in {"respond", "done"} /\ search_queries.bound) =>
       Len(raw) = Len(search_queries.value)

\* a chat whose first search failed while the rows were read and whose second
\* search still delivered rows
C17_Witness ==
  /\ endpoint = "chat"
  /\ pc = "done"
  /\ Len(store_errors) = 2
  /\ store_errors[1] = "rows"
  /\ store_errors[2] = "none"
  /\ raw[1] = <<>>
  /\ raw[2] # <<>>

\* the chunk_ids of a result, in order
IdsOf(rows) == [r \in 1..Len(rows) |-> rows[r].chunk_id]

\* every search succeeded and returned the same hits
SameHits ==
  \A i \in 1..Len(raw) : store_errors[i] = "none" /\ IdsOf(raw[i]) = IdsOf(raw[1])

\* C28: with several queries each searched with floor(limit / count) + 1,
\* queries that return the same hits leave the merged result with no more
\* chunks than one query's budget, which can be fewer than limit although the
\* store holds limit distinct chunks.
C28_UnderFilledResult ==
  (SearchDone /\ search_queries.bound /\ Len(search_queries.value) >= 2 /\ limit >= 0
     /\ SameHits) =>
    /\ Len(response.value.results) <= (limit \div Len(search_queries.value)) + 1
    /\ Len(response.value.results)
         = Min(limit, Cardinality({raw[1][r].chunk_id : r \in 1..Len(raw[1])}))

\* three queries, limit 2: each search used its whole budget of one row on
\* the same chunk, and the result has one chunk of the two the store holds
C28_Witness ==
  /\ SearchDone
  /\ search_queries.bound
  /\ Len(search_queries.value) = 3
  /\ limit = 2
  /\ limits_sent = <<1, 1, 1>>
  /\ SameHits
  /\ IdsOf(raw[1]) = <<"D1_0">>
  /\ Len(response.value.results) = 1
  /\ Cardinality(ChunkIds) >= limit

\* the chunk_ids the store returned over all searches
ReturnedIds == {Flatten(raw)[r].chunk_id : r \in 1..Len(Flatten(raw))}

\* C30: on the path with search_queries and limit >= 0, /search-chunks
\* returns the first limit elements of the first-seen-deduplicated
\* concatenation of the per-query results; so it returns min(limit, number
\* of distinct chunk_ids returned) chunks, and an empty list with status 200
\* when no query matched.
C30_RetrievalResult ==
  (SearchDone /\ search_queries.bound /\ limit >= 0) =>
    LET merged == FirstSeen(Flatten(raw))
        results == response.value.results
    IN  /\ response.value.status = 200
        /\ Len(results) = Min(limit, Cardinality(ReturnedIds))
        /\ \A i \in 1..Len(results) :
             /\ results[i].chunk_id = merged[i].chunk_id
             /\ results[i].hit = merged[i].hit
        /\ (\A i \in 1..Len(raw) : raw[i] = <<>>) => results = <<>>

\* three searches returned three rows with two distinct chunk_ids, one was
\* asked for
C30_Witness ==
  /\ SearchDone
  /\ search_queries.bound
  /\ Len(raw) = 3
  /\ limit = 1
  /\ Len(Flatten(raw)) = 3
  /\ Cardinality(ReturnedIds) = 2
  /\ Len(response.value.results) = 1
  /\ response.value.results[1].hit = <<1, 1>>

-----------------------------------------------------------------------------
(* Properties of the query escaping *)

SpecialSet ==
  {"\\", "?", "!", "\"", "'", "+", "-", "=", "&", "|", ">", "<", "(", ")",
   "{", "}", "[", "]", "^", "~", "*", ":", "/"}

\* read left to right, every backslash escapes a special character and every
\* special character is escaped
RECURSIVE WellEscaped(_)
WellEscaped(e) ==
  IF e = <<>> THEN TRUE
  ELSE IF Head(e) = "\\"
       THEN Len(e) >= 2 /\ e[2] \in SpecialSet /\ WellEscaped(Tail(Tail(e)))
       ELSE Head(e) \notin SpecialSet /\ WellEscaped(Tail(e))

\* remove the escaping backslashes
RECURSIVE Unescape(_)
Unescape(e) ==
  IF e = <<>> THEN <<>>
  ELSE IF Head(e) = "\\" /\ Len(e) >= 2
       THEN <<e[2]>> \o Unescape(Tail(Tail(e)))
       ELSE <<Head(e)>> \o Unescape(Tail(e))

SpecialCount(s) == Cardinality({i \in 1..Len(s) : s[i] \in SpecialSet})

\* C18: the string handed to the store is the query with exactly one
\* backslash before each special character: nothing in it is unescaped or
\* escaped twice, and removing the inserted backslashes gives the query back.
C18_QueryEscaping ==
  s_pc = "done" =>
    /\ WellEscaped(escaped_query)
    /\ Unescape(escaped_query) = s_query
    /\ Len(escaped_query) = Len(s_query) + SpecialCount(s_query)

\* a query made of a backslash, a question mark and a letter
C18_Witness ==
  /\ s_pc = "done"
  /\ s_query = <<"\\", "?", "a">>
  /\ escaped_query = <<"\\", "\\", "\\", "?", "a">>

-----------------------------------------------------------------------------
(* Properties of the indexing *)

IndexDone == ipc = "done"

\* C19: one row per chunk goes into a single insert; with row errors the
\* result is a failure carrying the store's errors and the number of rows
\* attempted; without errors it is a success counting the chunks; when the
\* insert raises it is a failure carrying an error.
C19_IndexResult ==
  IndexDone =>
    /\ Len(insert_rows) = 1
    /\ Len(insert_rows[1]) = Len(chunks)
    /\ \A i \in 1..Len(chunks) : insert_rows[1][i].chunk_id = chunks[i].chunk_id
    /\ insert_outcome.value.kind = "errors" =>
         /\ ~index_result.value.success
         /\ index_result.value.error =
              [kind |-> "insert_errors", rows |-> insert_outcome.value.rows]
         /\ index_result.value.chunks_count = Len(chunks)
    /\ insert_outcome.value.kind = "ok" =>
         /\ index_result.value.success
         /\ index_result.value.chunks_count = Len(chunks)
    /\ insert_outcome.value.kind = "raises" =>
         /\ ~index_result.value.success
         /\ index_result.value.error.kind = "exception"

\* the number of search queries the search endpoint uses
QueriesUsed == IF search_queries.bound THEN Len(search_queries.value) ELSE 1

\* C20: in the search endpoint a single search query is searched with the
\* requested overall limit, and each of several queries with
\* floor(limit / query_count) + 1.
C20_PerQueryBudget ==
  (endpoint = "search" /\ pc \in {"retrieve", "respond", "done"}) =>
    \A i \in 1..Len(limits_sent) :
      limits_sent[i] = IF QueriesUsed = 1 THEN limit ELSE (limit \div QueriesUsed) + 1

\* C22: called with a chunk size <= 0 or an empty document id, the chunker
\* fails at once: it does not return and builds no chunk.
C22_InvalidArgumentsFailFast ==
  (chunk_size <= 0 \/ doc_id = <<>>) => (cpc # "done" /\ chunks = <<>>)

-----------------------------------------------------------------------------
(* Properties of the ingestion *)

IndexAttempted == cpc # "idle" \/ ipc # "idle" \/ insert_rows # <<>>

\* the indexing was attempted and failed: row errors, a raising insert, a
\* raising chunker or a raising client
IndexFailed ==
  \/ d_path \in {"setup_raised", "chunk_raised"}
  \/ d_path = "indexed" /\ insert_outcome.value.kind \in {"errors", "raises"}

\* C21: the chunks are indexed only after the document row is committed; when
\* the indexing fails the row stays committed, create_document still returns
\* success with the document, and bigquery_details is a failure with an error.
C21_TwoPhaseIngestion ==
  /\ IndexAttempted => db_rows = <<[filename |-> "case.pdf"]>>
  /\ (d_pc = "done" /\ IndexFailed) =>
       /\ db_rows = <<[filename |-> "case.pdf"]>>
       /\ d_result.value.success
       /\ d_result.value.document = [filename |-> "case.pdf"]
       /\ ~d_result.value.bigquery_details.success
       /\ d_result.value.bigquery_details.error.kind
            \in {"insert_errors", "exception", "storage_error"}

\* the store reported an error for the second of two rows
C21_Witness ==
  /\ d_pc = "done"
  /\ d_path = "indexed"
  /\ Len(chunks) = 2
  /\ insert_outcome.value = [kind |-> "errors", rows |-> {2}]
  /\ d_result.value.success
  /\ ~d_result.value.bigquery_details.success
  /\ db_rows # <<>>

-----------------------------------------------------------------------------
(* Properties of the external calls of one request *)

-----------------------------------------------------------------------------
(* Properties of the RAG prompt *)

PromptDone == p_pc = "done"

IsSection(x) == x.part = "section"

Sections == SelectSeq(p_prompt.value, IsSection)

\* the positions at which a doc_id appears for the first time
DocFirst == {i \in 1..Len(p_chunks) : \A j \in 1..(i - 1) : p_chunks[j].doc_id # p_chunks[i].doc_id}

\* the texts of the chunks of document d, in the order of cs
RECURSIVE TextsOfDoc(_, _)
TextsOfDoc(cs, d) ==
  IF cs = <<>> THEN <<>>
  ELSE (IF Head(cs).doc_id = d THEN <<Head(cs).text>> ELSE <<>>) \o TextsOfDoc(Tail(cs), d)

RECURSIVE TotalTexts(_)
TotalTexts(secs) == IF secs = <<>> THEN 0 ELSE Len(Head(secs).texts) + TotalTexts(Tail(secs))

\* C26: for a non-empty chunk sequence the prompt has one section per
\* distinct doc_id, in the order in which the doc_ids first appear; a section
\* holds the texts of the chunks of its doc_id in retrieval order, so each
\* chunk's text appears once; and its header carries the filename of the first
\* chunk of the group.
C26_ContextGrouping ==
  (PromptDone /\ p_chunks # <<>>) =>
    /\ Len(Sections) = Cardinality(DocFirst)
    /\ \A i \in DocFirst :
         LET k == Cardinality({j \in DocFirst : j < i}) + 1
         IN  /\ Sections[k].doc_id = p_chunks[i].doc_id
             /\ Sections[k].filename = p_chunks[i].filename
             /\ Sections[k].texts = TextsOfDoc(p_chunks, p_chunks[i].doc_id)
    /\ TotalTexts(Sections) = Len(p_chunks)

\* chunks of D1, D2 and D1 again, filed under different names
C26_Witness ==
  /\ PromptDone
  /\ p_chunks = <<[doc_id |-> "D1", filename |-> "a.pdf", text |-> "t1"],
                  [doc_id |-> "D2", filename |-> "b.pdf", text |-> "t1"],
                  [doc_id |-> "D1", filename |-> "b.pdf", text |-> "t2"]>>
  /\ Len(Sections) = 2
  /\ Sections[1] = [part |-> "section", filename |-> "a.pdf", doc_id |-> "D1",
                    texts |-> <<"t1", "t2">>]

\* the number of parts the history contributes to the prompt
HistoryLen == IF p_history.bound /\ p_history.value # <<>> THEN Len(p_history.value) + 1 ELSE 0

\* C27: the system role depends on the type of the intent only (comparison,
\* pattern, timeline or relationship, anything else), and the prompt is, in
\* this order: system role, formatting directive, the history turns in the
\* caller's order, the grouped context, the query and the answer cue.
C27_InstructionSelection ==
  PromptDone =>
    LET pr == p_prompt.value
        ty == intent.value.fields["type"].s
        n == Len(pr)
        h == HistoryLen
    IN  /\ pr[1] = [part |-> "system_role",
                    role |-> CASE ty = "comparison" -> "comparing legal cases"
                               [] ty = "pattern" -> "identifying patterns across cases"
                               [] ty \in {"timeline", "relationship"}
                                    -> "analyzing relationships and chronology"
                               [] OTHER -> "extracting insights from legal case files"]
        /\ pr[2] = [part |-> "format"]
        /\ h > 0 =>
             /\ pr[3] = [part |-> "history_header"]
             /\ \A j \in 1..Len(p_history.value) :
                  pr[3 + j] = [part |-> "turn", role |-> p_history.value[j].role,
                               content |-> p_history.value[j].content]
        /\ pr[3 + h] = [part |-> "context_header"]
        /\ \A j \in (4 + h)..(n - 2) : pr[j].part \in {"section", "separator"}
        /\ \A j \in 1..(3 + h) : pr[j].part \notin {"section", "separator"}
        /\ pr[n - 1] = [part |-> "question", query |-> query]
        /\ pr[n] = [part |-> "answer"]

\* a relationship question with a history of two turns
C27_Witness ==
  /\ PromptDone
  /\ intent.value.fields["type"].s = "relationship"
  /\ p_prompt.value[1].role = "analyzing relationships and chronology"
  /\ p_history = [bound |-> TRUE,
                  value |-> <<[role |-> "assistant", content |-> "hi"],
                              [role |-> "user", content |-> "hello"]>>]
  /\ Len(p_chunks) = 2

-----------------------------------------------------------------------------
(* Properties of the stages of a /chat request *)

\* C29: one /chat request classifies the query once, and the type that chose
\* the expansion branch is the type by which enhance_search_query words its
\* prompt and by which generate_rag_prompt picks the system role.
C29_IntentConsistency ==
  (endpoint = "stages" /\ intent.bound) =>
    /\ enhance_intent.bound =>
         enhance_intent.value.fields["type"] = intent.value.fields["type"]
    /\ prompt_intent.bound =>
         prompt_intent.value.fields["type"] = intent.value.fields["type"]

====
